---- MODULE Spec2Model ----
(***************************************************************************)
(* HireSight (CodeStuds/final-web): the candidate scoring and leaderboard  *)
(* pipeline of src/backend, as state machines.                              *)
(*                                                                         *)
(* Numbers.  Scores are Python floats.  They are modelled in fixed point:  *)
(* an integer v stands for v * 1e-7, so that round(x, 6) (which keeps six  *)
(* decimals) and the literal 0.3499999 are both representable.  Weights    *)
(* are integers standing for tenths (5 is 0.5); only their ratios matter.  *)
(* Scores on the 0-100 scale (api.py, services/) are integers standing for *)
(* hundredths (9000 is 90.00).  Optional values (Python None) are          *)
(* sequences: <<>> is None and <<v>> is the value v.                       *)
(***************************************************************************)
EXTENDS Integers, Sequences, FiniteSets, TLC

VARIABLES
    \* ---- utils.py pure functions under test (SpecScore)
    fn_linkedin_score, fn_github_score, fn_linkedin_weight, fn_github_weight,
    fn_combined, fn_tier, fn_pc,
    \* ---- leaderboard/leaderboard.py LeaderboardGenerator (Spec)
    candidates,             \* self.candidates: the mapping, in iteration order
    arg_linkedin_weight,    \* the arguments of __init__ as the caller passed them
    arg_github_weight,
    arg_min_score,
    linkedin_weight,        \* self.linkedin_weight
    github_weight,          \* self.github_weight
    min_score,              \* self.min_score
    leaderboard,            \* self.leaderboard
    previous_leaderboard,   \* what the previous calculate_scores call returned
    lb_pc,
    \* ---- api.py POST /api/leaderboard, services/leaderboard_service.py (Spec)
    call_site,              \* which of the leaderboard call sites this run uses
    request_candidates,     \* the candidates list the client is putting together
    route_request,          \* the JSON body of the last POST /api/leaderboard
    route_response,         \* its response
    svc_request,            \* the arguments of the last generate_leaderboard call
    svc_response,           \* what it returned or raised
    \* ---- utils.normalize_name, DataLoader.merge_candidate_data (SpecName)
    linkedin_name,          \* a candidate's name as results.csv spells it
    github_name,            \* the same name as the GitHub profile spells it
    edits,                  \* how many spelling changes separate the two
    hyphen_edited,          \* whether one of them put in a hyphen
    norm_once,              \* normalize_name(linkedin_name)
    norm_twice,             \* normalize_name of that
    merged,                 \* what merge_candidate_data returned
    name_pc,
    \* ---- the session's reports/ directory, its writer and its reader (SpecFile)
    reports,                \* reports/: file name -> the JSON document in it
    loaded_scores,          \* what DataLoader.load_github_scores returned
    file_pc,
    \* ---- utils/session_manager.py SessionManager over a file system (SpecSession)
    now,                    \* datetime.now(): an index into Instants
    fs_dirs,                \* the directories that exist, as resolved paths
    fs_metadata,            \* session directory -> the content of its metadata.json
    create_calls,           \* the create_session calls made so far, with their results
    last_lookup,            \* the last get_session_dir / delete_session call, if any
    sess_pc,
    \* ---- SessionManager.update_session_metadata called by threads (SpecMetadata)
    md_file,                \* metadata.json of the session: its state and content
    upd_pc,                 \* per call: where it stands
    upd_updates,            \* per call: the updates argument
    upd_metadata,           \* per call: the local variable metadata
    upd_raced,              \* per call: another call wrote while this one had the file open
    \* ---- api.py POST /api/rank served by request threads (SpecRank)
    rank_now,               \* datetime.now(), in seconds
    upload_files,           \* UPLOAD_FOLDER: the files in it, each with whose bytes it holds
    extract_dirs,           \* UPLOAD_FOLDER: the <timestamp>_extracted directories in it
    extracted_files,        \* the files in those directories, each with whose bytes it holds
    rk_pc,                  \* per request: where it stands
    rk_upload,              \* per request: the uploaded file (name, zip member)
    rk_timestamp,           \* per request: the local variable timestamp
    rk_candidates,          \* per request: whose resumes went into candidates
    rk_response,            \* per request: the HTTP status returned
    interference,           \* [by, of]: request by read, overwrote or deleted a file of request of
    \* ---- the TF-IDF similarity entry points (SpecSimilarity)
    sim_job,                \* the job text: a sequence of tokens
    sim_resume,             \* the resume text
    sim_entry,              \* the entry point called
    sim_outcome,            \* what it returned, or that it raised
    \* ---- github-data-fetch/analyzer.py GitHubAnalyzer (SpecAnalyzer)
    top_repos,              \* self.top_repos: the fetched repository records
    an_pc,
    complete_analysis,      \* what perform_complete_analysis returned, None if it raised
    \* ---- github-data-fetch: retry_on_rate_limit around a fetch (SpecFetch)
    rt_method,              \* the decorated function called
    rt_username,            \* the username the fetcher was asked for
    rt_max_retries,         \* the decorator's max_retries
    rt_attempt,             \* the loop variable attempt: invocations made so far
    rt_delay,               \* the local variable delay
    rt_client,              \* per invocation: how the GitHub client behaved
    rt_seen,                \* per invocation: what reached the wrapper
    rt_waits,               \* the time.sleep calls made, in seconds
    rt_outcome,             \* what the wrapper returned or raised
    \* ---- api.py POST /api/github/analyze (SpecFetch)
    gh_request,
    gh_response,
    \* CandidateMatcher (matcher.py)
    mt_analysis,         \* the analysis handed to CandidateMatcher
    mt_job,              \* the job requirements
    mt_result,           \* what calculate_overall_match returned, or None
    \* SessionManager.cleanup_old_sessions (utils/session_manager.py)
    cl_today,            \* the current day
    cl_dirs,             \* the entries of the base upload directory
    cl_created,          \* entry -> the day its directory was created
    cl_metadata,         \* entry -> its metadata.json, or None when there is none
    cl_last,             \* the cleanup call that has just returned, or None
    \* DynamicLeaderboardGenerator (utils/dynamic_leaderboard.py)
    dl_candidates,       \* the candidates the session's data files hold
    dl_files,            \* which of the session's files exist
    dl_leaderboard_json, \* the content of leaderboard.json, or None
    dl_lookup,           \* the get_candidate_rank call that has just returned, or None
    \* EmailService (ibhanwork/emailsender.py)
    em_smtp_connection,  \* self.smtp_connection: None or the connection's number
    em_open,             \* the connections to the SMTP server that are open
    em_calls,            \* how many send_bulk_emails calls were made
    em_result,           \* what the last send_bulk_emails call returned, or None
    \* safe_extract_zip (api.py)
    zp_archive,          \* the uploaded archive
    zp_result,           \* what safe_extract_zip returned, or None
    \* CandidateScorer (candidate_scorer.py)
    cs_candidates,       \* the candidates handed to score_multiple_candidates
    cs_weights,          \* its weights argument
    cs_ranked            \* the list it returned, or None

varsFile == <<reports, loaded_scores, file_pc>>

varsName == <<linkedin_name, github_name, edits, hyphen_edited, norm_once,
              norm_twice, merged, name_pc>>

varsSite == <<call_site, request_candidates, route_request, route_response,
              svc_request, svc_response>>

varsLB == <<candidates, arg_linkedin_weight, arg_github_weight, arg_min_score,
            linkedin_weight, github_weight, min_score, leaderboard,
            previous_leaderboard, lb_pc>>

varsFn == <<fn_linkedin_score, fn_github_score, fn_linkedin_weight,
            fn_github_weight, fn_combined, fn_tier, fn_pc>>

varsSess == <<now, fs_dirs, fs_metadata, create_calls, last_lookup, sess_pc>>

varsMeta == <<md_file, upd_pc, upd_updates, upd_metadata, upd_raced>>

varsRank == <<rank_now, upload_files, extract_dirs, extracted_files, rk_pc,
              rk_upload, rk_timestamp, rk_candidates, rk_response, interference>>

varsSim == <<sim_job, sim_resume, sim_entry, sim_outcome>>

varsAn == <<top_repos, an_pc, complete_analysis>>

varsFetch == <<rt_method, rt_username, rt_max_retries, rt_attempt, rt_delay,
               rt_client, rt_seen, rt_waits, rt_outcome, gh_request, gh_response>>

varsMatch == <<mt_analysis, mt_job, mt_result>>

varsClean == <<cl_today, cl_dirs, cl_created, cl_metadata, cl_last>>

varsDyn == <<dl_candidates, dl_files, dl_leaderboard_json, dl_lookup>>

varsMail == <<em_smtp_connection, em_open, em_calls, em_result>>

varsZip == <<zp_archive, zp_result>>

varsCand == <<cs_candidates, cs_weights, cs_ranked>>

vars == <<varsFn, varsLB, varsSite, varsName, varsFile, varsSess, varsMeta, varsRank, varsSim, varsAn, varsFetch, varsMatch, varsClean, varsDyn, varsMail, varsZip, varsCand>>

----------------------------------------------------------------------------
(* Optional values *)

None == <<>>

Some(v) == <<v>>

IsNone(x) == x = <<>>

Val(x) == x[1]

----------------------------------------------------------------------------
(* Fixed-point arithmetic *)

\* 1.0 and 1e-6 in units of 1e-7
One == 10 * 1000 * 1000

Micro == 5 + 5

Min2(a, b) == IF a <= b THEN a ELSE b

Max2(a, b) == IF a >= b THEN a ELSE b

\* n/d rounded to the nearest integer, ties to the even one (d > 0);
\* \div is floor division
RoundHalfEven(n, d) ==
    LET q == n \div d
        r == n - q * d
    IN  IF 2 * r < d THEN q
        ELSE IF 2 * r > d THEN q + 1
        ELSE IF q % 2 = 0 THEN q ELSE q + 1

\* Python round(n/d, 6) on a value in units of 1e-7: to a multiple of 1e-6
Round6(n, d) ==
    IF d > 0 THEN Micro * RoundHalfEven(n, d * Micro)
    ELSE Micro * RoundHalfEven(-n, (-d) * Micro)

\* the multiples of 1e-6 next below and next above a value
Floor6(v) == Micro * (v \div Micro)

Ceil6(v) == Micro * ((v + Micro - 1) \div Micro)

----------------------------------------------------------------------------
(* leaderboard/utils.py *)

calculate_combined_score_unnormalised(l_score, g_score, l_weight, g_weight) ==
    Round6(l_score * l_weight + g_score * g_weight, 10)

\* utils.py:43-72: weights normalised by their sum, result rounded to 6 places
calculate_combined_score(l_score, g_score, l_weight, g_weight) ==
    LET total_weight == l_weight + g_weight
    IN  IF total_weight = 0 THEN 0
        ELSE Round6(l_score * l_weight + g_score * g_weight, total_weight)

classify_score_exclusive(score) ==
    IF score > 8500000 THEN <<"Excellent Match", "gold">>
    ELSE IF score > 7500000 THEN <<"Very Good Match", "silver">>
    ELSE IF score > 6500000 THEN <<"Good Match", "bronze">>
    ELSE IF score > 5000000 THEN <<"Moderate Match", "check">>
    ELSE IF score > 3500000 THEN <<"Fair Match", "warning">>
    ELSE <<"Low Match", "cross">>

\* utils.py:176-197: (tier, emoji) by fixed cutoffs 0.85/0.75/0.65/0.50/0.35
classify_score(score) ==
    IF score >= 8500000 THEN <<"Excellent Match", "gold">>
    ELSE IF score >= 7500000 THEN <<"Very Good Match", "silver">>
    ELSE IF score >= 6500000 THEN <<"Good Match", "bronze">>
    ELSE IF score >= 5000000 THEN <<"Moderate Match", "check">>
    ELSE IF score >= 3500000 THEN <<"Fair Match", "warning">>
    ELSE <<"Low Match", "cross">>

----------------------------------------------------------------------------
(* leaderboard/config.py *)

\* in tenths
LINKEDIN_WEIGHT == 5

GITHUB_WEIGHT == 5

MIN_SCORE_THRESHOLD == 0

----------------------------------------------------------------------------
(* leaderboard/utils.py, leaderboard/data_loader.py: score normalisation *)

\* utils.py:9-23: a 0-100 score (in hundredths) to the 0-1 scale, clamped
normalize_github_score(score) ==
    IF score < 0 THEN 0
    ELSE IF score > 100 * 100 THEN One
    ELSE score * 1000

\* utils.py:26-40: a 0-1 score clamped to [0, 1]
normalize_linkedin_score(score) ==
    IF score < 0 THEN 0
    ELSE IF score > One THEN One
    ELSE score

\* data_loader.py:16-24
CandidateScore(name, l, g, username, lraw, graw) ==
    [name |-> name, linkedin_score |-> l, github_score |-> g,
     github_username |-> username, linkedin_raw_score |-> lraw,
     github_raw_score |-> graw]

----------------------------------------------------------------------------
(* leaderboard/leaderboard.py: LeaderboardGenerator *)

\* leaderboard.py:51-52: `weight or DEFAULT`: None and 0 both give the default
init_weight(arg, default) ==
    IF IsNone(arg) \/ Val(arg) = 0 THEN default ELSE Val(arg)

\* leaderboard.py:53: `min_score if min_score is not None else DEFAULT`
init_min_score(arg) ==
    IF ~IsNone(arg) THEN Val(arg) ELSE MIN_SCORE_THRESHOLD

\* leaderboard.py:68-69: a missing score counts as 0.0
score_or_zero(x) == IF ~IsNone(x) THEN Val(x) ELSE 0

combined_for_always_weighted(l, g, wl, wg) ==
    calculate_combined_score(l, g, wl, wg)

\* leaderboard.py:75-87: one source alone is taken outright
combined_for(l, g, wl, wg) ==
    IF l > 0 /\ g = 0 THEN l
    ELSE IF g > 0 /\ l = 0 THEN g
    ELSE calculate_combined_score(l, g, wl, wg)

\* leaderboard.py:96-106: the entry appended for one candidate
scored_entry(candidate, wl, wg) ==
    LET l == score_or_zero(candidate.linkedin_score)
        g == score_or_zero(candidate.github_score)
        c == combined_for(l, g, wl, wg)
    IN  [name |-> candidate.name,
         combined_score |-> c,
         linkedin_score |-> l,
         github_score |-> g,
         tier |-> classify_score(c)[1],
         emoji |-> classify_score(c)[2],
         github_username |-> candidate.github_username,
         linkedin_raw_score |-> candidate.linkedin_raw_score,
         github_raw_score |-> candidate.github_raw_score]

keep_candidate_no_threshold(candidate, wl, wg, ms) ==
    LET l == score_or_zero(candidate.linkedin_score)
        g == score_or_zero(candidate.github_score)
    IN  ~(l = 0 /\ g = 0)

\* leaderboard.py:71-73, 89-91: the two `continue`s of the loop
keep_candidate(candidate, wl, wg, ms) ==
    LET l == score_or_zero(candidate.linkedin_score)
        g == score_or_zero(candidate.github_score)
    IN  /\ ~(l = 0 /\ g = 0)
        /\ ~(combined_for(l, g, wl, wg) < ms)

\* leaderboard.py:64-106: the loop over self.candidates.items()
scored_candidates(cands, wl, wg, ms) ==
    LET kept == SelectSeq(cands, LAMBDA c: keep_candidate(c, wl, wg, ms))
    IN  [i \in 1..Len(kept) |-> scored_entry(kept[i], wl, wg)]

RECURSIVE insert_desc(_, _, _)
\* x placed behind every entry whose key is not smaller: equal keys keep their
\* order
insert_desc(x, s, key) ==
    IF s = <<>> THEN <<x>>
    ELSE IF Head(s)[key] >= x[key]
         THEN <<Head(s)>> \o insert_desc(x, Tail(s), key)
         ELSE <<x>> \o s

RECURSIVE insert_desc_before_equal(_, _, _)
insert_desc_before_equal(x, s, key) ==
    IF s = <<>> THEN <<x>>
    ELSE IF Head(s)[key] > x[key]
         THEN <<Head(s)>> \o insert_desc_before_equal(x, Tail(s), key)
         ELSE <<x>> \o s

RECURSIVE sort_desc_unstable(_, _)
sort_desc_unstable(s, key) ==
    IF s = <<>> THEN <<>>
    ELSE insert_desc_before_equal(s[Len(s)],
                                  sort_desc_unstable(SubSeq(s, 1, Len(s) - 1), key), key)

RECURSIVE sort_desc(_, _)
\* list.sort(key=lambda x: x[key], reverse=True): descending, and stable
sort_desc(s, key) ==
    IF s = <<>> THEN <<>>
    ELSE insert_desc(s[Len(s)], sort_desc(SubSeq(s, 1, Len(s) - 1), key), key)

sort_by_combined_score_unstable(s) == sort_desc_unstable(s, "combined_score")

\* leaderboard.py:109
sort_by_combined_score(s) == sort_desc(s, "combined_score")

\* leaderboard.py:14-28, 111-117: RankedCandidate(rank=rank, **candidate_data)
add_ranks(s) ==
    [i \in 1..Len(s) |->
        [rank |-> i,
         name |-> s[i].name,
         combined_score |-> s[i].combined_score,
         linkedin_score |-> s[i].linkedin_score,
         github_score |-> s[i].github_score,
         tier |-> s[i].tier,
         emoji |-> s[i].emoji,
         github_username |-> s[i].github_username,
         linkedin_raw_score |-> s[i].linkedin_raw_score,
         github_raw_score |-> s[i].github_raw_score]]

\* leaderboard.py:57-119
calculate_scores(cands, wl, wg, ms) ==
    add_ranks(sort_by_combined_score(scored_candidates(cands, wl, wg, ms)))

----------------------------------------------------------------------------
(* api.py: POST /api/leaderboard; scores on the 0-100 scale, in hundredths *)

\* dict.get(key, default) on a field that may be absent
get(field, default) == IF IsNone(field) THEN default ELSE Val(field)

\* Python round(n/d, 2) on a value in hundredths
Round2(n, d) ==
    IF d > 0 THEN RoundHalfEven(n, d) ELSE RoundHalfEven(-n, -d)

\* the rank of entry i set to i (api.py:847-848, leaderboard_service.py:70-71)
assign_ranks(s) == [i \in 1..Len(s) |-> [s[i] EXCEPT !.rank = i]]

\* api.py:825-841: one entry; the weights are used as given, not normalised
route_entry(candidate, weights) ==
    LET l == get(candidate.linkedin_score, 0)
        g == get(candidate.github_score, 0)
    IN  [name |-> candidate.name,
         linkedin_score |-> l,
         github_score |-> g,
         combined_score |-> Round2(l * get(weights.linkedin, 5)
                                   + g * get(weights.github, 5), 10),
         github_username |-> candidate.github_username,
         rank |-> 0]

\* api.py:792-862
route_generate_leaderboard(data) ==
    IF IsNone(data.candidates)
    THEN [status |-> 400, leaderboard |-> <<>>]
    ELSE LET cands == Val(data.candidates)
             weights == get(data.weights, [linkedin |-> Some(5), github |-> Some(5)])
             entries == [i \in 1..Len(cands) |-> route_entry(cands[i], weights)]
         IN  [status |-> 200,
              leaderboard |-> assign_ranks(sort_desc(entries, "combined_score"))]

----------------------------------------------------------------------------
(* services/leaderboard_service.py: LeaderboardService *)

\* leaderboard_service.py:19-23, in tenths
DEFAULT_WEIGHTS == [linkedin |-> Some(3), github |-> Some(4), resume |-> Some(3)]

\* a weights dict is falsy when it is None or has no key
weights_or_default(weights) ==
    IF IsNone(weights) THEN DEFAULT_WEIGHTS
    ELSE IF IsNone(Val(weights).linkedin) /\ IsNone(Val(weights).github)
            /\ IsNone(Val(weights).resume)
         THEN DEFAULT_WEIGHTS
         ELSE Val(weights)

\* sum(weights.values()): the keys that are present
total_weight_of(weights) ==
    get(weights.linkedin, 0) + get(weights.github, 0) + get(weights.resume, 0)

\* leaderboard_service.py:82-119 with the weights of lines 55-58: each weight
\* is v / total when total > 0 and v as given otherwise
svc_score_candidate(candidate, weights) ==
    LET l == get(candidate.linkedin_score, 0)
        g == get(candidate.github_score, 0)
        r == get(candidate.resume_score, 0)
        total == total_weight_of(weights)
        weighted == l * get(weights.linkedin, 0) + g * get(weights.github, 0)
                    + r * get(weights.resume, 0)
    IN  [name |-> candidate.name,
         linkedin_score |-> l,
         github_score |-> g,
         resume_score |-> r,
         combined_score |-> IF total > 0 THEN Round2(weighted, total)
                            ELSE Round2(weighted, 10),
         github_username |-> candidate.github_username,
         rank |-> 0]

\* leaderboard_service.py:29-80
svc_generate_leaderboard(cands, weights, sort_by) ==
    IF cands = <<>>
    THEN [raised |-> "ValueError", leaderboard |-> <<>>]
    ELSE LET w == weights_or_default(weights)
             entries == [i \in 1..Len(cands) |-> svc_score_candidate(cands[i], w)]
         IN  [raised |-> "",
              leaderboard |-> assign_ranks(sort_desc(entries, sort_by))]

----------------------------------------------------------------------------
(* Spec: a candidate mapping as the DataLoader builds it, a generator       *)
(* constructed over it, calculate_scores called on it                       *)

MaxCandidates == 3

\* what results.csv and the analysis files can hold for one candidate
LinkedinRawInputs == {None, Some(0), Some(4000000), Some(8000000)}

GithubRawInputs == {None, Some(0), Some(8000)}

WeightArgs == {None, Some(0), Some(2), Some(-2)}

GithubWeightArgs == {None, Some(0), Some(5)}

MinScoreArgs == {None, Some(6000000)}

LBInit ==
    /\ candidates = <<>>
    /\ arg_linkedin_weight = None
    /\ arg_github_weight = None
    /\ arg_min_score = None
    /\ linkedin_weight = 0
    /\ github_weight = 0
    /\ min_score = 0
    /\ leaderboard = <<>>
    /\ previous_leaderboard = None
    /\ lb_pc = "loading"

LBIdle ==
    /\ candidates = <<>>
    /\ arg_linkedin_weight = None
    /\ arg_github_weight = None
    /\ arg_min_score = None
    /\ linkedin_weight = 0
    /\ github_weight = 0
    /\ min_score = 0
    /\ leaderboard = <<>>
    /\ previous_leaderboard = None
    /\ lb_pc = "idle"

\* data_loader.py:159-183: one more entry of the merged mapping, its scores
\* normalised as load_linkedin_scores and load_github_scores normalise them
AddCandidate ==
    /\ call_site = "generator"
    /\ lb_pc = "loading"
    /\ Len(candidates) < MaxCandidates
    /\ \E lraw \in LinkedinRawInputs, graw \in GithubRawInputs :
         LET name == "c" \o ToString(Len(candidates) + 1)
             l == IF IsNone(lraw) THEN None ELSE Some(normalize_linkedin_score(Val(lraw)))
             g == IF IsNone(graw) THEN None ELSE Some(normalize_github_score(Val(graw)))
             user == IF IsNone(graw) THEN None ELSE Some(name)
         IN  candidates' = Append(candidates, CandidateScore(name, l, g, user, l, graw))
    /\ UNCHANGED <<arg_linkedin_weight, arg_github_weight, arg_min_score,
                   linkedin_weight, github_weight, min_score, leaderboard,
                   previous_leaderboard, lb_pc>>

\* leaderboard.py:34-55: LeaderboardGenerator(candidates, wl, wg, ms)
NewLeaderboardGenerator ==
    /\ call_site = "generator"
    /\ lb_pc = "loading"
    /\ \E wl \in WeightArgs, wg \in GithubWeightArgs, ms \in MinScoreArgs :
         /\ arg_linkedin_weight' = wl
         /\ arg_github_weight' = wg
         /\ arg_min_score' = ms
         /\ linkedin_weight' = init_weight(wl, LINKEDIN_WEIGHT)
         /\ github_weight' = init_weight(wg, GITHUB_WEIGHT)
         /\ min_score' = init_min_score(ms)
    /\ leaderboard' = <<>>
    /\ lb_pc' = "constructed"
    /\ UNCHANGED <<candidates, previous_leaderboard>>

\* leaderboard.py:57-119, called for the first time or again
CalculateScores ==
    /\ lb_pc \in {"constructed", "calculated"}
    /\ IF lb_pc = "constructed" THEN TRUE ELSE IsNone(previous_leaderboard)
    /\ leaderboard' = calculate_scores(candidates, linkedin_weight, github_weight, min_score)
    /\ previous_leaderboard' = IF lb_pc = "calculated" THEN Some(leaderboard) ELSE None
    /\ lb_pc' = "calculated"
    /\ UNCHANGED <<candidates, arg_linkedin_weight, arg_github_weight, arg_min_score,
                   linkedin_weight, github_weight, min_score>>

----------------------------------------------------------------------------
(* SpecScore: calculate_combined_score and classify_score applied to inputs *)
(* drawn from bounded sets                                                  *)

\* scores in units of 1e-7: the tier cutoffs, their neighbours, values with a
\* seventh decimal, the ends of the scale
ScoreInputs ==
    {0, 4, 1234567, 3499999, 3500000, 4999999, 5000000, 6499999, 6500000,
     7499999, 7500000, 8000000, 8499999, 8500000, 9999996, One}

\* weights in tenths, negative ones included (no caller validates them)
WeightInputs == {-10, -2, 0, 2, 5, 8, 10, 20}

FnInit ==
    /\ fn_linkedin_score \in ScoreInputs
    /\ fn_github_score \in ScoreInputs
    /\ fn_linkedin_weight \in WeightInputs
    /\ fn_github_weight \in WeightInputs
    /\ fn_combined = None
    /\ fn_tier = None
    /\ fn_pc = "input"

FnIdle ==
    /\ fn_linkedin_score = 0
    /\ fn_github_score = 0
    /\ fn_linkedin_weight = 0
    /\ fn_github_weight = 0
    /\ fn_combined = None
    /\ fn_tier = None
    /\ fn_pc = "idle"

\* a call of calculate_combined_score on the drawn inputs
CallCombinedScore ==
    /\ fn_pc = "input"
    /\ fn_combined' = Some(calculate_combined_score(fn_linkedin_score, fn_github_score,
                                                    fn_linkedin_weight, fn_github_weight))
    /\ fn_pc' = "combined"
    /\ UNCHANGED <<fn_linkedin_score, fn_github_score, fn_linkedin_weight,
                   fn_github_weight, fn_tier>>

\* a call of classify_score on the combined score (as calculate_scores does)
\* or directly on an input score
CallClassifyScore ==
    /\ fn_pc \in {"input", "combined"}
    /\ fn_tier' = IF fn_pc = "combined"
                  THEN <<Val(fn_combined), classify_score(Val(fn_combined))>>
                  ELSE <<fn_linkedin_score, classify_score(fn_linkedin_score)>>
    /\ fn_pc' = "classified"
    /\ UNCHANGED <<fn_linkedin_score, fn_github_score, fn_linkedin_weight,
                   fn_github_weight, fn_combined>>

----------------------------------------------------------------------------
(* Spec: the two other leaderboard call sites, each serving one request *)

SeqsUpTo(S, n) == UNION {[1..k -> S] : k \in 0..n}

RouteScoreInputs == {None, Some(5000), Some(10000)}

RouteWeightInputs == {None, Some(5), Some(10), Some(-5)}

ServiceWeightInputs == {None, Some(3), Some(20), Some(-10)}

SiteInit ==
    /\ call_site \in {"generator", "route", "service"}
    /\ request_candidates = <<>>
    /\ route_request = None
    /\ route_response = None
    /\ svc_request = None
    /\ svc_response = None

SiteIdle ==
    /\ call_site = "none"
    /\ request_candidates = <<>>
    /\ route_request = None
    /\ route_response = None
    /\ svc_request = None
    /\ svc_response = None

\* the client puts one more candidate into the list it will send; a score key
\* may be absent; only the service reads resume_score
AddRequestCandidate ==
    /\ call_site \in {"route", "service"}
    /\ IsNone(route_response) /\ IsNone(svc_response)
    /\ Len(request_candidates) < MaxCandidates
    /\ \E l \in IF call_site = "route" THEN RouteScoreInputs ELSE {None, Some(10000)},
          g \in IF call_site = "route" THEN RouteScoreInputs ELSE {None, Some(5000)},
          r \in IF call_site = "route" THEN {None} ELSE {None, Some(10000)} :
         request_candidates' =
            Append(request_candidates,
                   [name |-> "c" \o ToString(Len(request_candidates) + 1),
                    linkedin_score |-> l,
                    github_score |-> g,
                    resume_score |-> r,
                    github_username |-> ""])
    /\ UNCHANGED <<call_site, route_request, route_response, svc_request, svc_response>>

\* api.py:792-862: one POST /api/leaderboard; the body may lack 'candidates',
\* 'weights' or either weight
PostLeaderboard ==
    /\ call_site = "route"
    /\ IsNone(route_response)
    /\ \E body \in {None, Some(request_candidates)},
          weights \in {None} \cup
                      {Some([linkedin |-> wl, github |-> wg]) :
                          wl \in RouteWeightInputs, wg \in {None, Some(5), Some(10)}} :
         /\ IsNone(body) => request_candidates = <<>>
         /\ route_request' = Some([candidates |-> body, weights |-> weights])
         /\ route_response' =
                Some(route_generate_leaderboard([candidates |-> body, weights |-> weights]))
    /\ UNCHANGED <<call_site, request_candidates, svc_request, svc_response>>

\* leaderboard_service.py:29-80: one generate_leaderboard call
ServiceGenerateLeaderboard ==
    /\ call_site = "service"
    /\ IsNone(svc_response)
    /\ \E weights \in {None} \cup
                      {Some([linkedin |-> wl, github |-> wg, resume |-> wr]) :
                          wl \in ServiceWeightInputs, wg \in {None, Some(4)},
                          wr \in {None, Some(3)}},
          sort_by \in {"combined_score", "github_score"} :
         /\ svc_request' = Some([candidates |-> request_candidates, weights |-> weights,
                                 sort_by |-> sort_by])
         /\ svc_response' = Some(svc_generate_leaderboard(request_candidates, weights,
                                                          sort_by))
    /\ UNCHANGED <<call_site, request_candidates, route_request, route_response>>

----------------------------------------------------------------------------
(* leaderboard/utils.py: normalize_name.  A name is a sequence of characters; *)
(* the characters stand for their classes: lower-case and upper-case letters, *)
(* two kinds of whitespace, the hyphen, and other punctuation.               *)

Chars == {"a", "A", "b", " ", "\t", "-", "."}

Whitespace == {" ", "\t"}

\* str.lower() on one character
lower_char(c) == IF c = "A" THEN "a" ELSE c

\* the class [a-z0-9\s\-]
is_kept_char(c) == c \in {"a", "b", "-"} \cup Whitespace

lower(name) == [i \in 1..Len(name) |-> lower_char(name[i])]

\* re.sub(r'[^a-z0-9\s\-]', '', name)
remove_special(name) == SelectSeq(name, is_kept_char)

RECURSIVE collapse_whitespace(_)
\* re.sub(r'\s+', ' ', name): every run of whitespace becomes one space
collapse_whitespace(name) ==
    IF name = <<>> THEN <<>>
    ELSE IF Head(name) \in Whitespace
         THEN IF Len(name) > 1 /\ name[2] \in Whitespace
              THEN collapse_whitespace(Tail(name))
              ELSE <<" ">> \o collapse_whitespace(Tail(name))
         ELSE <<Head(name)>> \o collapse_whitespace(Tail(name))

RECURSIVE lstrip(_)
lstrip(name) ==
    IF name # <<>> /\ Head(name) \in Whitespace THEN lstrip(Tail(name)) ELSE name

RECURSIVE rstrip(_)
rstrip(name) ==
    IF name # <<>> /\ name[Len(name)] \in Whitespace
    THEN rstrip(SubSeq(name, 1, Len(name) - 1))
    ELSE name

\* str.strip()
strip(name) == rstrip(lstrip(name))

normalize_name_strip_first(name) ==
    IF name = <<>> THEN <<>>
    ELSE collapse_whitespace(remove_special(strip(lower(name))))

normalize_name_case_sensitive(name) ==
    IF name = <<>> THEN <<>>
    ELSE strip(collapse_whitespace(remove_special(name)))

\* utils.py:75-103
normalize_name(name) ==
    IF name = <<>> THEN <<>>
    ELSE strip(collapse_whitespace(remove_special(lower(name))))

----------------------------------------------------------------------------
(* leaderboard/data_loader.py: merge_candidate_data.  A dict is a sequence of *)
(* [key, value] records in insertion order, its keys distinct.               *)

has_key(d, k) == \E i \in 1..Len(d) : d[i].key = k

key_index(d, k) == CHOOSE i \in 1..Len(d) : d[i].key = k

\* d[k] = v: an existing key keeps its place
dict_set(d, k, v) ==
    IF has_key(d, k) THEN [d EXCEPT ![key_index(d, k)].value = v]
    ELSE Append(d, [key |-> k, value |-> v])

RECURSIVE add_github_candidates(_, _)
\* data_loader.py:158-167
add_github_candidates(result, github_scores) ==
    IF github_scores = <<>> THEN result
    ELSE LET username == Head(github_scores).key
             github_data == Head(github_scores).value
         IN  add_github_candidates(
                 dict_set(result, normalize_name(github_data.name),
                          CandidateScore(github_data.name, None,
                                         Some(github_data.score), Some(username),
                                         None, Some(github_data.raw_score))),
                 Tail(github_scores))

RECURSIVE match_linkedin_candidates(_, _)
\* data_loader.py:169-183
match_linkedin_candidates(result, linkedin_scores) ==
    IF linkedin_scores = <<>> THEN result
    ELSE LET linkedin_nm == Head(linkedin_scores).key
             linkedin_sc == Head(linkedin_scores).value
             normalized_name == normalize_name(linkedin_nm)
             updated ==
                IF has_key(result, normalized_name)
                THEN LET old == result[key_index(result, normalized_name)].value
                     IN  dict_set(result, normalized_name,
                                  [old EXCEPT !.linkedin_score = Some(linkedin_sc),
                                              !.linkedin_raw_score = Some(linkedin_sc)])
                ELSE dict_set(result, normalized_name,
                              CandidateScore(linkedin_nm, Some(linkedin_sc), None, None,
                                             Some(linkedin_sc), None))
         IN  match_linkedin_candidates(updated, Tail(linkedin_scores))

\* data_loader.py:141-185
merge_candidate_data(linkedin_scores, github_scores) ==
    match_linkedin_candidates(add_github_candidates(<<>>, github_scores), linkedin_scores)

----------------------------------------------------------------------------
(* SpecName: one candidate's name spelt twice, the spellings normalised and  *)
(* the two sources merged                                                    *)

MaxNameLen == 3

MaxEdits == 1

InsertAt(name, i, c) == SubSeq(name, 1, i) \o <<c>> \o SubSeq(name, i + 1, Len(name))

AtEndOrNextToWhitespace(name, i) ==
    IF i = 0 \/ i = Len(name) THEN TRUE
    ELSE name[i] \in Whitespace \/ name[i + 1] \in Whitespace

NameInit ==
    /\ linkedin_name \in SeqsUpTo(Chars, MaxNameLen)
    /\ github_name = linkedin_name
    /\ edits = 0
    /\ hyphen_edited = FALSE
    /\ norm_once = None
    /\ norm_twice = None
    /\ merged = None
    /\ name_pc = "spelling"

NameIdle ==
    /\ linkedin_name = <<>>
    /\ github_name = <<>>
    /\ edits = 0
    /\ hyphen_edited = FALSE
    /\ norm_once = None
    /\ norm_twice = None
    /\ merged = None
    /\ name_pc = "idle"

\* the GitHub profile spells a letter in the other case
ChangeCase ==
    /\ name_pc = "spelling"
    /\ edits < MaxEdits
    /\ \E i \in 1..Len(github_name) :
         /\ github_name[i] \in {"a", "A"}
         /\ github_name' = [github_name EXCEPT ![i] = IF @ = "a" THEN "A" ELSE "a"]
    /\ edits' = edits + 1
    /\ UNCHANGED <<linkedin_name, hyphen_edited, norm_once, norm_twice, merged, name_pc>>

\* the GitHub profile has one more punctuation character
InsertPunctuation ==
    /\ name_pc = "spelling"
    /\ edits < MaxEdits
    /\ \E i \in 0..Len(github_name), c \in {".", "-"} :
         /\ github_name' = InsertAt(github_name, i, c)
         /\ hyphen_edited' = (hyphen_edited \/ c = "-")
    /\ edits' = edits + 1
    /\ UNCHANGED <<linkedin_name, norm_once, norm_twice, merged, name_pc>>

\* the GitHub profile has more whitespace: at either end, or next to whitespace
\* that is there already
InsertWhitespace ==
    /\ name_pc = "spelling"
    /\ edits < MaxEdits
    /\ \E i \in 0..Len(github_name), c \in Whitespace :
         /\ AtEndOrNextToWhitespace(github_name, i)
         /\ github_name' = InsertAt(github_name, i, c)
    /\ edits' = edits + 1
    /\ UNCHANGED <<linkedin_name, hyphen_edited, norm_once, norm_twice, merged, name_pc>>

\* utils.py:75-103 on a spelling
NormalizeName ==
    /\ name_pc = "spelling"
    /\ norm_once' = Some(normalize_name(github_name))
    /\ name_pc' = "normalized"
    /\ UNCHANGED <<linkedin_name, github_name, edits, hyphen_edited, norm_twice, merged>>

\* utils.py:75-103 on its own result
NormalizeNameAgain ==
    /\ name_pc = "normalized"
    /\ norm_twice' = Some(normalize_name(Val(norm_once)))
    /\ name_pc' = "renormalized"
    /\ UNCHANGED <<linkedin_name, github_name, edits, hyphen_edited, norm_once, merged>>

\* data_loader.py:141-185 on one LinkedIn score and one GitHub score of the
\* candidate, each under its own spelling
MergeCandidateData ==
    /\ name_pc = "spelling"
    /\ merged' = Some(merge_candidate_data(
                    <<[key |-> linkedin_name, value |-> 4000000]>>,
                    <<[key |-> "user1",
                       value |-> [name |-> github_name, score |-> 8000000,
                                  raw_score |-> 8000, username |-> "user1"]]>>))
    /\ name_pc' = "merged"
    /\ UNCHANGED <<linkedin_name, github_name, edits, hyphen_edited, norm_once, norm_twice>>

----------------------------------------------------------------------------
(* utils/github_analysis_generator.py (the writer of reports/) and           *)
(* leaderboard/data_loader.py load_github_scores (its reader).  A JSON       *)
(* object is a function from its keys; a file name is the sequence of its    *)
(* parts.  Scores on the 0-100 scale are in hundredths.                      *)

EmptyDict == [k \in {} |-> 0]

\* dict.get(key, default)
dict_get(d, k, default) == IF k \in DOMAIN d THEN d[k] ELSE default

\* github_analysis_generator.py:144-147, 163: the score read from the service
\* result (a [float, v] pair, v in units of 1e-4), a float of at most 1.0
\* taken to be on the 0-1 scale and multiplied by 100, rounded to 2 places
written_overall_score(analysis) ==
    LET overall_score == dict_get(analysis, "overall_score", [float |-> TRUE, v |-> 0])
        scaled == IF overall_score.float /\ overall_score.v <= 10000
                  THEN overall_score.v * 100
                  ELSE overall_score.v
    IN  Round2(scaled, 100)

\* github_analysis_generator.py:125-177
transform_to_leaderboard_format(username, service_result) ==
    LET profile == dict_get(service_result, "profile", EmptyDict)
        analysis == dict_get(service_result, "analysis", EmptyDict)
    IN  [username |-> username,
         analysis_date |-> "now",
         profile |-> [name |-> dict_get(profile, "name", None),
                      followers |-> dict_get(profile, "followers", 0),
                      public_repos |-> dict_get(profile, "public_repos", 0)],
         metrics |-> [overall_score |-> written_overall_score(analysis),
                      total_repos |-> dict_get(analysis, "total_repos", 0)],
         top_repositories |-> <<>>,
         skills_matched |-> <<>>,
         compatibility |-> dict_get(analysis, "compatibility_score", 0)]

\* github_analysis_generator.py:179-212
create_minimal_analysis(username, error) ==
    [username |-> username,
     analysis_date |-> "now",
     error |-> error,
     profile |-> EmptyDict,
     metrics |-> [overall_score |-> 0, total_repos |-> 0],
     top_repositories |-> <<>>,
     skills_matched |-> <<>>,
     compatibility |-> 0]

\* github_analysis_generator.py:86-123, given what the GitHub service returned
analyze_github_profile(username, service_result) ==
    IF ~dict_get(service_result, "success", FALSE)
    THEN create_minimal_analysis(username, dict_get(service_result, "error", None))
    ELSE transform_to_leaderboard_format(username, service_result)

\* github_analysis_generator.py:268: f"analysis_{github_username}.json"
json_filename(github_username) == <<"analysis_", github_username, ".json">>

\* data_loader.py:99-100: glob analysis_*.json
is_analysis_file(filename) ==
    /\ Len(filename) >= 2
    /\ filename[1] = "analysis_"
    /\ filename[Len(filename)] = ".json"

\* data_loader.py:112-113: the file name without 'analysis_' and '.json'
username_of(filename) ==
    SelectSeq(filename, LAMBDA part : part \notin {"analysis_", ".json"})[1]

\* data_loader.py:111-131: the entry made from one file
github_entry(filename, data) ==
    LET username == username_of(filename)
        match_data == dict_get(data, "match_results", EmptyDict)
        overall_score == dict_get(match_data, "overall_score", 0)
        profile == dict_get(dict_get(data, "analysis", EmptyDict), "profile", EmptyDict)
        profile_name == dict_get(profile, "name", None)
    IN  [name |-> IF IsNone(profile_name) THEN username ELSE Val(profile_name),
         score |-> normalize_github_score(overall_score),
         raw_score |-> overall_score,
         username |-> username]

RECURSIVE load_github_files(_, _)
\* data_loader.py:106-135
load_github_files(scores, files) ==
    IF files = <<>> THEN scores
    ELSE load_github_files(
            dict_set(scores, username_of(Head(files).key),
                     github_entry(Head(files).key, Head(files).value)),
            Tail(files))

\* data_loader.py:85-139
load_github_scores(dir) ==
    load_github_files(<<>>, SelectSeq(dir, LAMBDA f : is_analysis_file(f.key)))

----------------------------------------------------------------------------
(* SpecFile: analyses written into a session's reports/, then loaded *)

MaxWrites == 2

Usernames == {"octocat", "torvalds"}

ProfileNames == {None, Some("The Octocat"), Some("Linus")}

\* analysis.overall_score as the service may report it: absent, 0.8 and 1.0 as
\* floats, 1 as an int, 55.5 and 80.0 on the 0-100 scale
OverallScores ==
    {None, Some([float |-> TRUE, v |-> 8000]), Some([float |-> TRUE, v |-> 10000]),
     Some([float |-> FALSE, v |-> 10000]), Some([float |-> TRUE, v |-> 555000]),
     Some([float |-> TRUE, v |-> 800000])}

\* what GitHubService.analyze_profile can hand back
ServiceResults ==
    {[success |-> FALSE, error |-> Some("GitHub analysis failed")]} \cup
    {[success |-> TRUE,
      profile |-> [name |-> n, followers |-> 1, public_repos |-> 2],
      analysis |-> IF IsNone(sc) THEN [total_repos |-> 2]
                   ELSE [total_repos |-> 2, overall_score |-> Val(sc)]] :
        n \in ProfileNames, sc \in OverallScores}

FileInit ==
    /\ reports = <<>>
    /\ loaded_scores = None
    /\ file_pc = "writing"

FileIdle ==
    /\ reports = <<>>
    /\ loaded_scores = None
    /\ file_pc = "idle"

\* github_analysis_generator.py:263-283: one candidate's analysis written
GenerateAnalysis ==
    /\ file_pc = "writing"
    /\ Len(reports) < MaxWrites
    /\ \E github_username \in Usernames, service_result \in ServiceResults :
         reports' = dict_set(reports, json_filename(github_username),
                             analyze_github_profile(github_username, service_result))
    /\ UNCHANGED <<loaded_scores, file_pc>>

\* data_loader.py:85-139 on the session's reports/ (dynamic_leaderboard.py:72, 88)
LoadGithubScores ==
    /\ file_pc = "writing"
    /\ loaded_scores' = Some(load_github_scores(reports))
    /\ file_pc' = "loaded"
    /\ UNCHANGED reports

----------------------------------------------------------------------------
(* Properties of LeaderboardGenerator (Spec) *)

\* position of a candidate in the iteration order of the input mapping
IndexOf(name) == CHOOSE i \in 1..Len(candidates) : candidates[i].name = name

HasEntry(name) == \E i \in 1..Len(leaderboard) : leaderboard[i].name = name

EntryOf(name) == leaderboard[CHOOSE i \in 1..Len(leaderboard) : leaderboard[i].name = name]

LScore(c) == score_or_zero(c.linkedin_score)

GScore(c) == score_or_zero(c.github_score)

\* C1: a candidate with exactly one nonzero score (the other 0 or missing) is
\* given that score as its combined score, whatever the weights: it is on the
\* leaderboard whenever that score reaches min_score, and its entry's combined
\* score is the nonzero score.
C1_SingleSourceTakenOutright ==
    lb_pc = "calculated" =>
        \A i \in 1..Len(candidates) :
            LET c == candidates[i]
                l == LScore(c)
                g == GScore(c)
            IN  ((l # 0 /\ g = 0) \/ (l = 0 /\ g # 0)) =>
                    /\ (l + g >= min_score) => HasEntry(c.name)
                    /\ HasEntry(c.name) => EntryOf(c.name).combined_score = l + g

\* C1 witness: GitHub 0.8 alone, weights other than the defaults, combined 0.8
C1_Witness ==
    /\ lb_pc = "calculated"
    /\ linkedin_weight # github_weight
    /\ \E i \in 1..Len(candidates) :
         /\ IsNone(candidates[i].linkedin_score)
         /\ candidates[i].github_score = Some(8000000)
         /\ HasEntry(candidates[i].name)
         /\ EntryOf(candidates[i].name).combined_score = 8000000

\* the weight the caller asked for: the default only where none was passed
CallerWeight(arg, default) == IF IsNone(arg) THEN default ELSE Val(arg)

\* C2: with both scores nonzero the combined score is the average weighted by
\* the weights the caller passed (rounded to 6 places), the defaults standing
\* in only for a weight that was not passed; a passed weight of 0 counts as 0.
C2_CallerWeightsGovern ==
    lb_pc = "calculated" =>
        \A i \in 1..Len(leaderboard) :
            LET e == leaderboard[i]
                wl == CallerWeight(arg_linkedin_weight, LINKEDIN_WEIGHT)
                wg == CallerWeight(arg_github_weight, GITHUB_WEIGHT)
            IN  (e.linkedin_score # 0 /\ e.github_score # 0 /\ wl + wg # 0) =>
                    e.combined_score =
                        Round6(wl * e.linkedin_score + wg * e.github_score, wl + wg)

\* C4: every combined score a leaderboard call site emits is within the scale
\* of its inputs: [0, 1] for LeaderboardGenerator.calculate_scores, [0, 100]
\* for POST /api/leaderboard and for LeaderboardService.generate_leaderboard.
C4_CombinedWithinScale ==
    /\ lb_pc = "calculated" =>
         \A i \in 1..Len(leaderboard) :
            leaderboard[i].combined_score \in 0..One
    /\ ~IsNone(route_response) =>
         \A i \in 1..Len(Val(route_response).leaderboard) :
            Val(route_response).leaderboard[i].combined_score \in 0..(100 * 100)
    /\ ~IsNone(svc_response) =>
         \A i \in 1..Len(Val(svc_response).leaderboard) :
            Val(svc_response).leaderboard[i].combined_score \in 0..(100 * 100)

\* C5: the leaderboard holds exactly the candidates with a nonzero score whose
\* combined score reaches min_score, each once; a candidate with both scores 0
\* or missing is never on it; ranks number the entries that passed the
\* threshold.
C5_ExactlyTheQualifying ==
    lb_pc = "calculated" =>
        /\ \A i \in 1..Len(leaderboard) :
             /\ \E k \in 1..Len(candidates) :
                  /\ candidates[k].name = leaderboard[i].name
                  /\ (LScore(candidates[k]) # 0 \/ GScore(candidates[k]) # 0)
             /\ leaderboard[i].combined_score >= min_score
             /\ leaderboard[i].rank \in 1..Len(leaderboard)
             /\ \A j \in 1..Len(leaderboard) :
                  leaderboard[i].name = leaderboard[j].name => i = j
        /\ \A k \in 1..Len(candidates) :
             LET c == candidates[k]
             IN  /\ (LScore(c) = 0 /\ GScore(c) = 0) => ~HasEntry(c.name)
                 /\ ((LScore(c) # 0 \/ GScore(c) # 0) /\ ~HasEntry(c.name)) =>
                        combined_for(LScore(c), GScore(c), linkedin_weight, github_weight)
                            < min_score

\* C5 witness: one candidate dropped for having no score, one dropped by the
\* threshold, one kept
C5_Witness ==
    /\ lb_pc = "calculated"
    /\ min_score > 0
    /\ Len(leaderboard) >= 1
    /\ \E a, b \in 1..Len(candidates) :
         /\ LScore(candidates[a]) = 0 /\ GScore(candidates[a]) = 0
         /\ LScore(candidates[b]) # 0
         /\ ~HasEntry(candidates[a].name)
         /\ ~HasEntry(candidates[b].name)

\* C6: entries are in non-increasing order of combined score, entries with equal
\* combined score keep the order of the input mapping, the entry at position i
\* has rank i, and a second call on the same mapping returns the same list.
C6_SortedStableRanked ==
    lb_pc = "calculated" =>
        /\ \A i, j \in 1..Len(leaderboard) :
             i < j =>
                /\ leaderboard[i].combined_score >= leaderboard[j].combined_score
                /\ leaderboard[i].combined_score = leaderboard[j].combined_score =>
                       IndexOf(leaderboard[i].name) < IndexOf(leaderboard[j].name)
        /\ \A i \in 1..Len(leaderboard) : leaderboard[i].rank = i
        /\ ~IsNone(previous_leaderboard) => leaderboard = Val(previous_leaderboard)

\* C6 witness: a second call, three entries, two of them tied
C6_Witness ==
    /\ lb_pc = "calculated"
    /\ ~IsNone(previous_leaderboard)
    /\ Len(leaderboard) >= 3
    /\ \E i \in 1..(Len(leaderboard) - 1) :
         leaderboard[i].combined_score = leaderboard[i + 1].combined_score
    /\ leaderboard[1].combined_score > leaderboard[Len(leaderboard)].combined_score

----------------------------------------------------------------------------
(* Properties of the utils.py functions (SpecScore) *)

C7_TierBoundaries ==
    ~IsNone(fn_tier) =>
        LET score == fn_tier[1]
            tier == fn_tier[2][1]
        IN  /\ score = 8500000 => tier = "Excellent Match"
            /\ score = 7500000 => tier = "Very Good Match"
            /\ score = 6500000 => tier = "Good Match"
            /\ score = 5000000 => tier = "Moderate Match"
            /\ score = 3500000 => tier = "Fair Match"
            /\ score < 3500000 => tier = "Low Match"
            /\ tier = "Low Match" => score < 3500000
            /\ tier \in {"Excellent Match", "Very Good Match", "Good Match",
                         "Moderate Match", "Fair Match", "Low Match"}

\* C7 witness: 0.3499999 classified Low
C7_Witness ==
    /\ ~IsNone(fn_tier)
    /\ fn_tier[1] = 3499999
    /\ fn_tier[2][1] = "Low Match"

----------------------------------------------------------------------------
(* Properties of normalize_name and merge_candidate_data (SpecName) *)

\* C8: normalize_name is idempotent: applied to its own result it returns it
\* unchanged.
C8_NormalizeIdempotent ==
    name_pc = "renormalized" => Val(norm_twice) = Val(norm_once)

\* C8 witness: a name that normalisation changes in every way (case,
\* punctuation, whitespace) and that is not emptied
C8_Witness ==
    /\ name_pc = "renormalized"
    /\ Val(norm_once) # github_name
    /\ Len(Val(norm_once)) >= 3
    /\ \E i \in 1..Len(github_name) : github_name[i] = "A"
    /\ \E i \in 1..Len(github_name) : github_name[i] = "."
    /\ \E i \in 1..Len(github_name) : github_name[i] = "\t"

MergedIntoOneRecord ==
    /\ normalize_name(linkedin_name) = normalize_name(github_name)
    /\ Len(Val(merged)) = 1
    /\ Val(merged)[1].value.linkedin_score = Some(4000000)
    /\ Val(merged)[1].value.github_score = Some(8000000)

\* C9 as stated: spellings that differ only in letter case, in punctuation
\* characters or in the amount of whitespace have the same key, and the merge
\* puts the LinkedIn and the GitHub score into one record.
C9_SpellingsJoin ==
    name_pc = "merged" => MergedIntoOneRecord

\* C9 amended: the same for spellings that differ only in letter case, in
\* punctuation characters other than the hyphen, or in the amount of
\* whitespace.
C9_SpellingsJoinExceptHyphen ==
    (name_pc = "merged" /\ ~hyphen_edited) => MergedIntoOneRecord

\* C9 witness: two different spellings (no hyphen put in) merged into one
\* record
C9_Witness ==
    /\ name_pc = "merged"
    /\ ~hyphen_edited
    /\ edits >= 1
    /\ linkedin_name # github_name
    /\ Len(normalize_name(linkedin_name)) >= 2
    /\ MergedIntoOneRecord

----------------------------------------------------------------------------
(* Properties of the reports/ file layout (SpecFile) *)

\* C10: every reports/analysis_<username>.json the GitHub-analysis generator
\* wrote, with overall score s under metrics and profile name N, is loaded by
\* the DataLoader as a candidate named N (the username when the profile has no
\* name) with github_raw_score s and github_score s/100.
C10_WrittenAnalysisIsLoaded ==
    file_pc = "loaded" =>
        \A i \in 1..Len(reports) :
            LET data == reports[i].value
                username == data.username
                N == dict_get(data.profile, "name", None)
                s == data.metrics.overall_score
            IN  /\ has_key(Val(loaded_scores), username)
                /\ LET loaded == Val(loaded_scores)[key_index(Val(loaded_scores), username)].value
                   IN  /\ loaded.name = (IF IsNone(N) THEN username ELSE Val(N))
                       /\ loaded.raw_score = s
                       /\ loaded.score = s * 1000

----------------------------------------------------------------------------
(* utils/session_manager.py: SessionManager.  A string (an id, a path) is a  *)
(* sequence of tokens, "/" being the path separator; a resolved path is the  *)
(* sequence of the directory names from the root, each name a string.        *)

\* __init__ (session_manager.py:31): the directory all sessions live in
base_upload_dir == <<"/", "backend", "/", "uploads">>

\* os.path.join of two strings
os_path_join(a, b) ==
    IF b # <<>> /\ b[1] = "/" THEN b
    ELSE IF a = <<>> \/ a[Len(a)] = "/" THEN a \o b
    ELSE a \o <<"/">> \o b

\* the names between the separators of a path string, empty ones included
RECURSIVE split_path(_, _)
split_path(path, name) ==
    IF path = <<>> THEN <<name>>
    ELSE IF path[1] = "/" THEN <<name>> \o split_path(Tail(path), <<>>)
    ELSE split_path(Tail(path), Append(name, path[1]))

\* the parent of a resolved path; the root is its own parent
parent_dir(dir) == IF dir = <<>> THEN <<>> ELSE SubSeq(dir, 1, Len(dir) - 1)

\* path resolution by the operating system: from dir, walk the names; "" and
\* "." stay, ".." goes up, any other name must be an existing directory
RECURSIVE walk(_, _, _)
walk(dirs, dir, names) ==
    IF names = <<>> THEN Some(dir)
    ELSE IF names[1] = <<>> \/ names[1] = <<".">> THEN walk(dirs, dir, Tail(names))
    ELSE IF names[1] = <<"..">> THEN walk(dirs, parent_dir(dir), Tail(names))
    ELSE IF Append(dir, names[1]) \in dirs
         THEN walk(dirs, Append(dir, names[1]), Tail(names))
    ELSE None

\* the directory a path string names, None when there is none (paths here are
\* absolute: base_upload_dir is)
resolve(dirs, path) == walk(dirs, <<>>, split_path(path, <<>>))

\* os.path.exists
os_path_exists(dirs, path) == ~IsNone(resolve(dirs, path))

\* the resolved path a path string without ".." stands for, existing or not
path_of(path) == SelectSeq(split_path(path, <<>>), LAMBDA name : name # <<>>)

\* os.makedirs(path, exist_ok=True): the directory and its missing ancestors
os_makedirs(dirs, path) ==
    dirs \cup {SubSeq(path_of(path), 1, k) : k \in 0..Len(path_of(path))}

IsPrefix(p, q) == Len(p) <= Len(q) /\ SubSeq(q, 1, Len(p)) = p

\* shutil.rmtree(dir): the directory and everything below it
shutil_rmtree(dirs, dir) == {d \in dirs : ~IsPrefix(dir, d)}

\* the characters ids are made of, standing for their classes: a lower-case
\* and an upper-case letter, the underscore, the hyphen, the space, the dot,
\* and the slash for everything else
IdChars == {"a", "A", "b", "_", "-", " ", ".", "/"}

lower_id_char(c) == IF c = "A" THEN "a" ELSE c

\* session_manager.py:326-330: what one character contributes
sanitize_char(c) ==
    IF c \in {"a", "A", "b", "-", "_"} THEN <<c>>
    ELSE IF c \in {" ", "."} THEN <<"_">>
    ELSE <<>>

RECURSIVE sanitize_chars(_)
sanitize_chars(id_string) ==
    IF id_string = <<>> THEN <<>>
    ELSE sanitize_char(id_string[1]) \o sanitize_chars(Tail(id_string))

SANITIZED_MAX_LEN == 50

\* session_manager.py:314-338
sanitize_id(id_string) ==
    LET sanitized == sanitize_chars(id_string)
        limited == IF Len(sanitized) > SANITIZED_MAX_LEN
                   THEN SubSeq(sanitized, 1, SANITIZED_MAX_LEN) ELSE sanitized
    IN  [i \in 1..Len(limited) |-> lower_id_char(limited[i])]

\* the instants datetime.now() returns in a run: seconds and microseconds
Instants == <<[second |-> 0, microsecond |-> 0],
              [second |-> 0, microsecond |-> 400],
              [second |-> 0, microsecond |-> 1200],
              [second |-> 1, microsecond |-> 0]>>

\* session_manager.py:55: strftime('%Y%m%d_%H%M%S_%f')[:19] keeps the date and
\* time to the second and the first three of the six microsecond digits
timestamp_of(instant) ==
    <<ToString(instant.second), "_", ToString(instant.microsecond \div 1000)>>

\* Python truthiness of an optional string
truthy(opt) == ~IsNone(opt) /\ Val(opt) # <<>>

\* '_'.join(components)
RECURSIVE join_underscore(_)
join_underscore(components) ==
    IF Len(components) = 1 THEN components[1]
    ELSE components[1] \o <<"_">> \o join_underscore(Tail(components))

\* session_manager.py:58-65
session_id_of(company_id, job_id, instant) ==
    join_underscore(<<<<"session">>>>
        \o (IF truthy(company_id) THEN <<sanitize_id(Val(company_id))>> ELSE <<>>)
        \o (IF truthy(job_id) THEN <<sanitize_id(Val(job_id))>> ELSE <<>>)
        \o <<timestamp_of(instant)>>)

or_default(opt) == IF truthy(opt) THEN Val(opt) ELSE <<"default">>

\* session_manager.py:74-84
session_metadata_of(session_id, company_id, job_id, instant) ==
    [session_id |-> session_id,
     created_at |-> instant,
     company_id |-> or_default(company_id),
     job_id |-> or_default(job_id),
     job_title |-> "Unknown Position",
     status |-> "created",
     candidates_processed |-> 0,
     github_analyses_completed |-> 0,
     linkedin_scores_generated |-> FALSE]

\* session_manager.py:98-114: Some(path string), or None for the ValueError
get_session_dir(dirs, session_id) ==
    LET session_dir == os_path_join(base_upload_dir, session_id)
    IN  IF ~os_path_exists(dirs, session_dir) THEN None ELSE Some(session_dir)

----------------------------------------------------------------------------
(* SpecSession: sessions created, looked up and deleted while time passes *)

MaxSessions == 2

CompanyIds == {None, Some(<<"a">>), Some(<<"A", " ", "b">>), Some(<<"a", ".", "b">>)}

JobIds == {None, Some(<<"b">>)}

\* the session_id strings callers pass to get_session_dir and delete_session
SessionIdArgs ==
    {<<>>, <<"..">>, <<"..", "/", "leaderboard">>, <<"/", "backend">>, <<"nosuch">>}

SessInit ==
    /\ now = 1
    /\ fs_dirs = {<<>>, <<<<"backend">>>>, <<<<"backend">>, <<"uploads">>>>,
                  <<<<"backend">>, <<"leaderboard">>>>}
    /\ fs_metadata = <<>>
    /\ create_calls = <<>>
    /\ last_lookup = None
    /\ sess_pc = "serving"

SessIdle ==
    /\ now = 0
    /\ fs_dirs = {}
    /\ fs_metadata = <<>>
    /\ create_calls = <<>>
    /\ last_lookup = None
    /\ sess_pc = "none"

\* time passes
Tick ==
    /\ sess_pc = "serving"
    /\ now < Len(Instants)
    /\ now' = now + 1
    /\ UNCHANGED <<fs_dirs, fs_metadata, create_calls, last_lookup, sess_pc>>

\* session_manager.py:35-96
CreateSession ==
    /\ sess_pc = "serving"
    /\ Len(create_calls) < MaxSessions
    /\ \E company_id \in CompanyIds, job_id \in JobIds :
         LET session_id == session_id_of(company_id, job_id, Instants[now])
             session_dir == os_path_join(base_upload_dir, session_id)
             made == os_makedirs(
                        os_makedirs(os_makedirs(fs_dirs, session_dir),
                                    os_path_join(session_dir, <<"reports">>)),
                        os_path_join(session_dir, <<"resumes">>))
         IN  /\ fs_dirs' = made
             /\ fs_metadata' =
                    (path_of(session_dir) :>
                        session_metadata_of(session_id, company_id, job_id, Instants[now]))
                    @@ fs_metadata
             /\ create_calls' =
                    Append(create_calls,
                           [company_id |-> company_id,
                            job_id |-> job_id,
                            at |-> Instants[now],
                            overwrote |-> path_of(session_dir) \in DOMAIN fs_metadata,
                            session_id |-> session_id,
                            session_dir |-> session_dir])
    /\ UNCHANGED <<now, last_lookup, sess_pc>>

\* session_manager.py:98-114, called with any string
GetSessionDir ==
    /\ sess_pc = "serving"
    /\ \E session_id \in SessionIdArgs \cup {create_calls[i].session_id :
                                                i \in 1..Len(create_calls)} :
         last_lookup' =
            Some([op |-> "get_session_dir",
                    session_id |-> session_id,
                    returned |-> get_session_dir(fs_dirs, session_id),
                    resolved |-> IF IsNone(get_session_dir(fs_dirs, session_id))
                                 THEN None
                                 ELSE resolve(fs_dirs, Val(get_session_dir(fs_dirs, session_id))),
                    removed |-> {}])
    /\ UNCHANGED <<now, fs_dirs, fs_metadata, create_calls, sess_pc>>

\* session_manager.py:264-281, called with any string
DeleteSession ==
    /\ sess_pc = "serving"
    /\ \E session_id \in SessionIdArgs \cup {create_calls[i].session_id :
                                                i \in 1..Len(create_calls)} :
         LET session_dir == get_session_dir(fs_dirs, session_id)
             target == resolve(fs_dirs, Val(session_dir))
             left == IF IsNone(session_dir) THEN fs_dirs
                     ELSE shutil_rmtree(fs_dirs, Val(target))
         IN  /\ fs_dirs' = left
             /\ fs_metadata' = [d \in DOMAIN fs_metadata \cap left |-> fs_metadata[d]]
             /\ last_lookup' =
                    Some([op |-> "delete_session",
                            session_id |-> session_id,
                            returned |-> IF IsNone(session_dir) THEN None ELSE Some(<<"True">>),
                            resolved |-> IF IsNone(session_dir) THEN None ELSE target,
                            removed |-> fs_dirs \ left])
    /\ UNCHANGED <<now, create_calls, sess_pc>>

----------------------------------------------------------------------------
(* Properties of SessionManager (SpecSession) *)

SameCompanyAndJob(c, d) ==
    /\ or_default(c.company_id) = or_default(d.company_id)
    /\ or_default(c.job_id) = or_default(d.job_id)

\* C11: two create_session calls return the same session_id (and so share one
\* directory and one metadata.json) only if they were made for the same
\* company and job within the same second
C11_SharedOnlyForSameCompanyJobSecond ==
    \A i, j \in 1..Len(create_calls) :
        (i # j /\ create_calls[i].session_id = create_calls[j].session_id)
            => /\ SameCompanyAndJob(create_calls[i], create_calls[j])
               /\ create_calls[i].at.second = create_calls[j].at.second

DirectlyInsideBase(dir) == parent_dir(dir) = path_of(base_upload_dir) /\ dir # <<>>

\* C20: whatever session_id string is passed, get_session_dir returns, and
\* delete_session removes, only a directory located directly inside
\* base_upload_dir: never the base directory itself, never anything outside it
C20_OnlySessionDirectories ==
    (~IsNone(last_lookup) /\ ~IsNone(Val(last_lookup).returned))
        => /\ DirectlyInsideBase(Val(Val(last_lookup).resolved))
           /\ \A d \in Val(last_lookup).removed :
                  IsPrefix(Val(Val(last_lookup).resolved), d)

----------------------------------------------------------------------------
(* SpecMetadata: update_session_metadata (session_manager.py:138-160) called *)
(* on one existing session by several request threads.  The steps of a call  *)
(* are the file operations it makes: get_session_metadata reads and parses   *)
(* the file (lines 129-136), open(.., 'w') truncates it (line 157), json.dump *)
(* and the close write it (line 158).  Nothing in the class serialises them. *)

MaxUpdaters == 2

Updaters == 1..MaxUpdaters

\* the session all calls are about, as create_session left it
TheSessionId == session_id_of(Some(<<"a">>), None, Instants[1])

CreatedMetadata == session_metadata_of(TheSessionId, Some(<<"a">>), None, Instants[1])

\* the updates arguments callers pass; the first two and the last two are
\* disjoint in their keys
UpdateArgs ==
    {[status |-> "processing"],
     [candidates_processed |-> 3],
     [status |-> "completed", linkedin_scores_generated |-> TRUE],
     [github_analyses_completed |-> 2]}

\* dict.update: the keys of updates win
dict_update(metadata, updates) == updates @@ metadata

\* session_manager.py:150-152 once the file is parsed; updated_at is the time
\* of the call, told apart here by the call
updated_metadata(metadata, updates, call) ==
    dict_update(dict_update(metadata, updates), [updated_at |-> call])

MetaInit ==
    /\ md_file = [state |-> "written", content |-> CreatedMetadata]
    /\ upd_pc = [t \in Updaters |-> "idle"]
    /\ upd_updates = [t \in Updaters |-> <<>>]
    /\ upd_metadata = [t \in Updaters |-> <<>>]
    /\ upd_raced = [t \in Updaters |-> FALSE]

MetaIdle ==
    /\ md_file = [state |-> "none", content |-> <<>>]
    /\ upd_pc = <<>>
    /\ upd_updates = <<>>
    /\ upd_metadata = <<>>
    /\ upd_raced = <<>>

\* a request thread enters update_session_metadata
CallUpdate ==
    \E t \in Updaters :
    /\ upd_pc # <<>>
    /\ upd_pc[t] = "idle"
    /\ \E updates \in UpdateArgs : upd_updates' = [upd_updates EXCEPT ![t] = updates]
    /\ upd_pc' = [upd_pc EXCEPT ![t] = "called"]
    /\ UNCHANGED <<md_file, upd_metadata, upd_raced>>

\* lines 150-152: get_session_metadata, update, updated_at; json.load raises
\* on a file that is empty or garbled
ReadMetadata ==
    \E t \in Updaters :
    /\ upd_pc # <<>>
    /\ upd_pc[t] = "called"
    /\ IF md_file.state = "written"
       THEN /\ upd_metadata' =
                   [upd_metadata EXCEPT
                       ![t] = updated_metadata(md_file.content, upd_updates[t], t)]
            /\ upd_pc' = [upd_pc EXCEPT ![t] = "merged"]
       ELSE /\ upd_pc' = [upd_pc EXCEPT ![t] = "raised"]
            /\ UNCHANGED upd_metadata
    /\ UNCHANGED <<md_file, upd_updates, upd_raced>>

\* line 157: open(metadata_path, 'w') truncates the file
OpenForWriting ==
    \E t \in Updaters :
    /\ upd_pc # <<>>
    /\ upd_pc[t] = "merged"
    /\ md_file' = [state |-> "empty", content |-> <<>>]
    /\ upd_pc' = [upd_pc EXCEPT ![t] = "opened"]
    /\ upd_raced' = [upd_raced EXCEPT ![t] = FALSE]
    /\ UNCHANGED <<upd_updates, upd_metadata>>

\* line 158 and the end of the with block: the document is written from the
\* start of the file and the call returns.  When another call has written
\* since this one opened the file, what is left of the other's bytes depends
\* on the two lengths: the file holds this call's document, or its document
\* followed by the tail of the other's
DumpMetadata ==
    \E t \in Updaters :
    /\ upd_pc # <<>>
    /\ upd_pc[t] = "opened"
    /\ \/ md_file' = [state |-> "written", content |-> upd_metadata[t]]
       \/ /\ upd_raced[t]
          /\ md_file' = [state |-> "garbled", content |-> <<>>]
    /\ upd_pc' = [upd_pc EXCEPT ![t] = "returned"]
    /\ upd_raced' = [u \in Updaters |-> IF u # t /\ upd_pc[u] = "opened" THEN TRUE
                                        ELSE upd_raced[u]]
    /\ UNCHANGED <<upd_updates, upd_metadata>>

----------------------------------------------------------------------------
(* Properties of update_session_metadata (SpecMetadata) *)

Holds(content, updates) ==
    \A k \in DOMAIN updates : k \in DOMAIN content /\ content[k] = updates[k]

\* C19: once two update_session_metadata calls with disjoint keys have both
\* returned, metadata.json holds both updates and every field stored before
C19_NoUpdateLost ==
    \A t, u \in DOMAIN upd_pc :
        (/\ t # u
         /\ upd_pc[t] = "returned" /\ upd_pc[u] = "returned"
         /\ \A v \in DOMAIN upd_pc :
               (v # t /\ v # u) => upd_pc[v] = "idle"
         /\ DOMAIN upd_updates[t] \cap DOMAIN upd_updates[u] = {})
            => /\ md_file.state = "written"
               /\ Holds(md_file.content, upd_updates[t])
               /\ Holds(md_file.content, upd_updates[u])
               /\ \A k \in DOMAIN CreatedMetadata \ (DOMAIN upd_updates[t]
                                                      \cup DOMAIN upd_updates[u]) :
                      k \in DOMAIN md_file.content
                      /\ md_file.content[k] = CreatedMetadata[k]

----------------------------------------------------------------------------
(* api.py:483-601: POST /api/rank.  A file name is [stem, ext]; a file in    *)
(* UPLOAD_FOLDER is [timestamp, name]; the bytes of a file are told apart by *)
(* the request that uploaded them.  The form fields role and skills are      *)
(* taken to be valid (lines 515-517 pass).                                   *)

ALLOWED_EXTENSIONS == {"zip", "pdf", "docx", "doc", "txt"}

\* api.py:154-156
allowed_file(name) == name.ext \in ALLOWED_EXTENSIONS

\* werkzeug secure_filename: whitespace in the name becomes an underscore
secure_filename(name) ==
    [stem |-> IF name.stem = "a b" THEN "a_b" ELSE name.stem, ext |-> name.ext]

\* api.py:533-534
unique_filename(timestamp, filename) == [timestamp |-> timestamp, name |-> filename]

\* api.py:543: f"{timestamp}_extracted"
extract_dir_of(timestamp, filename) == <<timestamp, "extracted">>

MaxUploads == 2

Requests == 1..MaxUploads

RankSeconds == 0..1

UploadNames == {[stem |-> "a b", ext |-> "zip"], [stem |-> "a_b", ext |-> "zip"],
                [stem |-> "b", ext |-> "zip"], [stem |-> "b", ext |-> "pdf"],
                [stem |-> "b", ext |-> "exe"]}

MemberNames == {"cv.pdf", "me.pdf"}

RankInit ==
    /\ rank_now = 0
    /\ upload_files = <<>>
    /\ extract_dirs = {}
    /\ extracted_files = {}
    /\ rk_pc = [r \in Requests |-> "idle"]
    /\ rk_upload = [r \in Requests |-> <<>>]
    /\ rk_timestamp = [r \in Requests |-> 0]
    /\ rk_candidates = [r \in Requests |-> {}]
    /\ rk_response = [r \in Requests |-> 0]
    /\ interference = {}

RankIdle ==
    /\ rank_now = 0
    /\ upload_files = <<>>
    /\ extract_dirs = {}
    /\ extracted_files = {}
    /\ rk_pc = <<>>
    /\ rk_upload = <<>>
    /\ rk_timestamp = <<>>
    /\ rk_candidates = <<>>
    /\ rk_response = <<>>
    /\ interference = {}

\* a second passes
RankTick ==
    /\ rk_pc # <<>>
    /\ rank_now + 1 \in RankSeconds
    /\ rank_now' = rank_now + 1
    /\ UNCHANGED <<upload_files, extract_dirs, extracted_files, rk_pc, rk_upload,
                   rk_timestamp, rk_candidates, rk_response, interference>>

\* whose bytes request r touches in the file at path, other than its own
touched(files, path, r) ==
    IF path \in DOMAIN files /\ files[path] # r THEN {[by |-> r, of |-> files[path]]}
    ELSE {}

\* what is left of a function when one argument is taken out
without(f, x) == [y \in DOMAIN f \ {x} |-> f[y]]

file_path_of(r) == unique_filename(rk_timestamp[r], secure_filename(rk_upload[r].name))

\* lines 519-535: the file is checked, named and saved
SaveUpload ==
    \E r \in Requests :
    /\ rk_pc # <<>>
    /\ rk_pc[r] = "idle"
    /\ \E name \in UploadNames, member \in MemberNames :
         LET upload == [name |-> name, member |-> member]
             path == unique_filename(rank_now, secure_filename(name))
         IN  /\ rk_upload' = [rk_upload EXCEPT ![r] = upload]
             /\ IF ~allowed_file(name)
                THEN /\ rk_pc' = [rk_pc EXCEPT ![r] = "done"]
                     /\ rk_response' = [rk_response EXCEPT ![r] = 400]
                     /\ UNCHANGED <<upload_files, rk_timestamp, interference>>
                ELSE /\ rk_timestamp' = [rk_timestamp EXCEPT ![r] = rank_now]
                     /\ upload_files' = (path :> r) @@ upload_files
                     /\ interference' = interference \cup touched(upload_files, path, r)
                     /\ rk_pc' = [rk_pc EXCEPT ![r] = "saved"]
                     /\ UNCHANGED rk_response
    /\ UNCHANGED <<rank_now, extract_dirs, extracted_files, rk_candidates>>

\* lines 541-554: the archive is extracted into extract_dir; when it cannot be
\* opened (the saved file is gone), the route cleans up and answers 400
ExtractZip ==
    \E r \in Requests :
    /\ rk_pc # <<>>
    /\ rk_pc[r] = "saved"
    /\ secure_filename(rk_upload[r].name).ext = "zip"
    /\ LET extract_dir == extract_dir_of(rk_timestamp[r], secure_filename(rk_upload[r].name))
           path == file_path_of(r)
           member == [dir |-> extract_dir, name |-> rk_upload[r].member]
           replaced == {f \in extracted_files : f.dir = extract_dir /\ f.name = member.name}
           removed == {f \in extracted_files : f.dir = extract_dir}
       IN  IF path \in DOMAIN upload_files
           THEN /\ extract_dirs' = extract_dirs \cup {extract_dir}
                /\ extracted_files' =
                       (extracted_files \ replaced)
                       \cup {[dir |-> extract_dir, name |-> member.name,
                              of |-> upload_files[path]]}
                /\ interference' =
                       interference \cup touched(upload_files, path, r)
                       \cup {[by |-> r, of |-> f.of] : f \in {g \in replaced : g.of # r}}
                /\ rk_pc' = [rk_pc EXCEPT ![r] = "extracted"]
                /\ UNCHANGED <<rk_response>>
           ELSE /\ extract_dirs' = extract_dirs \ {extract_dir}
                /\ extracted_files' = extracted_files \ removed
                /\ interference' =
                       interference
                       \cup {[by |-> r, of |-> f.of] : f \in {g \in removed : g.of # r}}
                /\ rk_pc' = [rk_pc EXCEPT ![r] = "done"]
                /\ rk_response' = [rk_response EXCEPT ![r] = 400]
    /\ UNCHANGED <<rank_now, upload_files, rk_upload, rk_timestamp, rk_candidates>>

\* lines 556-568: every file found under extract_dir is processed, then the
\* directory is removed
ProcessExtracted ==
    \E r \in Requests :
    /\ rk_pc # <<>>
    /\ rk_pc[r] = "extracted"
    /\ LET extract_dir == extract_dir_of(rk_timestamp[r], secure_filename(rk_upload[r].name))
           found == {f \in extracted_files : f.dir = extract_dir}
       IN  /\ rk_candidates' = [rk_candidates EXCEPT ![r] = {f.of : f \in found}]
           /\ extract_dirs' = extract_dirs \ {extract_dir}
           /\ extracted_files' = extracted_files \ found
           /\ interference' =
                  interference
                  \cup {[by |-> r, of |-> f.of] : f \in {g \in found : g.of # r}}
    /\ rk_pc' = [rk_pc EXCEPT ![r] = "processed"]
    /\ UNCHANGED <<rank_now, upload_files, rk_upload, rk_timestamp, rk_response>>

\* lines 570-576: a single resume is read from the saved file; a file that is
\* gone makes open() raise (for .pdf and .docx the reader logs and returns "")
ProcessSingle ==
    \E r \in Requests :
    /\ rk_pc # <<>>
    /\ rk_pc[r] = "saved"
    /\ secure_filename(rk_upload[r].name).ext # "zip"
    /\ LET path == file_path_of(r)
       IN  /\ rk_candidates' =
                  [rk_candidates EXCEPT
                      ![r] = IF path \in DOMAIN upload_files THEN {upload_files[path]}
                             ELSE {}]
           /\ interference' = interference \cup touched(upload_files, path, r)
    /\ rk_pc' = [rk_pc EXCEPT ![r] = "processed"]
    /\ UNCHANGED <<rank_now, upload_files, extract_dirs, extracted_files, rk_upload,
                   rk_timestamp, rk_response>>

\* lines 556-576, 584-588: reading or scoring a resume raises (pdfplumber on a
\* damaged PDF: extract_text_from_pdf, lines 220-245, catches ImportError
\* only; the sklearn import of score_candidate_resume, lines 281-282, outside
\* its try).  The handler removes the saved file and re-raises, and the outer
\* handler answers 500
ProcessingRaises ==
    \E r \in Requests :
    /\ rk_pc # <<>>
    /\ \/ rk_pc[r] = "extracted"
       \/ rk_pc[r] = "saved" /\ secure_filename(rk_upload[r].name).ext # "zip"
    /\ LET path == file_path_of(r)
       IN  IF path \in DOMAIN upload_files
           THEN /\ upload_files' = without(upload_files, path)
                /\ interference' = interference \cup touched(upload_files, path, r)
           ELSE UNCHANGED <<upload_files, interference>>
    /\ rk_response' = [rk_response EXCEPT ![r] = 500]
    /\ rk_pc' = [rk_pc EXCEPT ![r] = "done"]
    /\ UNCHANGED <<rank_now, extract_dirs, extracted_files, rk_upload, rk_timestamp,
                   rk_candidates>>

\* lines 578-601: the saved file is removed and the results returned; a file
\* that is gone makes os.remove raise, which the outer handler turns into 500
RemoveUpload ==
    \E r \in Requests :
    /\ rk_pc # <<>>
    /\ rk_pc[r] = "processed"
    /\ LET path == file_path_of(r)
       IN  IF path \in DOMAIN upload_files
           THEN /\ upload_files' = without(upload_files, path)
                /\ interference' = interference \cup touched(upload_files, path, r)
                /\ rk_response' = [rk_response EXCEPT ![r] = 200]
           ELSE /\ rk_response' = [rk_response EXCEPT ![r] = 500]
                /\ UNCHANGED <<upload_files, interference>>
    /\ rk_pc' = [rk_pc EXCEPT ![r] = "done"]
    /\ UNCHANGED <<rank_now, extract_dirs, extracted_files, rk_upload, rk_timestamp,
                   rk_candidates>>

----------------------------------------------------------------------------
(* Properties of POST /api/rank (SpecRank) *)

\* C12: one upload reads, overwrites or deletes a file of another only if the
\* two landed in the same second with identical derived file names
C12_InterferenceOnlyForSameName ==
    \A e \in interference :
        /\ rk_timestamp[e.by] = rk_timestamp[e.of]
        /\ secure_filename(rk_upload[e.by].name) = secure_filename(rk_upload[e.of].name)

\* C25: once POST /api/rank has saved the upload, every way the request can
\* end leaves neither the saved upload file nor its <timestamp>_extracted
\* directory behind in the upload folder
C25_NothingLeftBehind ==
    (\A r \in Requests : rk_pc[r] \in {"idle", "done"})
        => \A r \in Requests :
              (rk_pc[r] = "done" /\ allowed_file(rk_upload[r].name))
                  => /\ file_path_of(r) \notin DOMAIN upload_files
                     /\ extract_dir_of(rk_timestamp[r], secure_filename(rk_upload[r].name))
                            \notin extract_dirs

----------------------------------------------------------------------------
(* The TF-IDF similarity entry points: utils/linkedin_score_generator.py     *)
(* calculate_similarity_score, api.py score_candidate_resume and             *)
(* utils/resume_scorer.py ResumeScorer.score_resumes.  A text is a sequence  *)
(* of tokens standing for their classes: two content words, a one-letter     *)
(* word (the vectoriser's token pattern wants two characters), an English    *)
(* stop word, and white space.  A similarity is in units of 1e-4.            *)

Tokens == {"python", "sql", "c", "the", " "}

\* the terms TfidfVectorizer(stop_words='english') keeps of a text
terms_of(text) ==
    {text[i] : i \in {j \in 1..Len(text) : text[j] \in {"python", "sql", "skills"}}}

\* str.strip() leaves nothing
is_blank(text) == \A i \in 1..Len(text) : text[i] = " "

\* how often a term occurs
count_of(text, term) == Cardinality({i \in 1..Len(text) : text[i] = term})

\* the cosine similarities fit_transform and cosine_similarity can give for
\* two documents: 0 without a common term, 1 for proportional term counts,
\* strictly between otherwise; the empty set stands for the ValueError that
\* fit_transform raises on an empty vocabulary
similarities_of(job, resume) ==
    IF terms_of(job) \cup terms_of(resume) = {} THEN {}
    ELSE IF terms_of(job) \cap terms_of(resume) = {} THEN {0}
    ELSE IF /\ terms_of(job) = terms_of(resume)
            /\ \A s, t \in terms_of(job) :
                  count_of(job, s) * count_of(resume, t)
                      = count_of(job, t) * count_of(resume, s)
         THEN {10000}
    ELSE {3361, 7071}

\* api.py:285-291: the job description is a template ("Role: ..  Required
\* Skills: .. ") around the requirements, so it always holds content words
job_desc_of(role) == <<"skills">> \o role

\* linkedin_score_generator.py:29-79
calculate_similarity_score(resume_text, job_description, similarity) ==
    IF is_blank(resume_text) THEN [raised |-> FALSE, score |-> 0]
    ELSE IF is_blank(job_description) THEN [raised |-> FALSE, score |-> 0]
    ELSE IF similarity = None THEN [raised |-> FALSE, score |-> 0]
    ELSE [raised |-> FALSE, score |-> Max2(0, Min2(10000, Val(similarity)))]

\* api.py:276-306; round(similarity * 100, 2) keeps the four digits
score_candidate_resume(similarity) ==
    IF similarity = None THEN [raised |-> FALSE, score |-> 5000]
    ELSE [raised |-> FALSE, score |-> Val(similarity)]

\* resume_scorer.py:79-147 for one resume: the except clause logs and raises
score_resumes(similarity) ==
    IF similarity = None THEN [raised |-> TRUE, score |-> 0]
    ELSE [raised |-> FALSE, score |-> Val(similarity)]

MaxWords == 2

SimInit ==
    /\ sim_job \in SeqsUpTo(Tokens, MaxWords)
    /\ sim_resume \in SeqsUpTo(Tokens, MaxWords)
    /\ sim_entry = "none"
    /\ sim_outcome = None

SimIdle ==
    /\ sim_job = <<>>
    /\ sim_resume = <<>>
    /\ sim_entry = "idle"
    /\ sim_outcome = None

\* what fit_transform followed by cosine_similarity does on two documents
vectorised(job, resume) ==
    IF similarities_of(job, resume) = {} THEN {None}
    ELSE {Some(s) : s \in similarities_of(job, resume)}

CallCalculateSimilarityScore ==
    /\ sim_entry = "none"
    /\ \E similarity \in vectorised(sim_job, sim_resume) :
         sim_outcome' = Some(calculate_similarity_score(sim_resume, sim_job, similarity))
    /\ sim_entry' = "calculate_similarity_score"
    /\ UNCHANGED <<sim_job, sim_resume>>

CallScoreCandidateResume ==
    /\ sim_entry = "none"
    /\ \E similarity \in vectorised(job_desc_of(sim_job), sim_resume) :
         sim_outcome' = Some(score_candidate_resume(similarity))
    /\ sim_entry' = "score_candidate_resume"
    /\ UNCHANGED <<sim_job, sim_resume>>

CallScoreResumes ==
    /\ sim_entry = "none"
    /\ \E similarity \in vectorised(sim_job, sim_resume) :
         sim_outcome' = Some(score_resumes(similarity))
    /\ sim_entry' = "score_resumes"
    /\ UNCHANGED <<sim_job, sim_resume>>

----------------------------------------------------------------------------
(* Properties of the similarity entry points (SpecSimilarity) *)

\* C13: no similarity-scoring entry point raises when vectorisation fails;
\* each returns its default score instead
C13_NoEntryPointRaises ==
    (~IsNone(sim_outcome) /\ similarities_of(sim_job, sim_resume) = {})
        => ~Val(sim_outcome).raised

----------------------------------------------------------------------------
(* github-data-fetch/analyzer.py: GitHubAnalyzer.  A repository record says  *)
(* which of the fields the analyses read it has: name, is_fork, languages    *)
(* (one language or none), pushed_at (missing, an ISO date, or a string that *)
(* is not one) and commits (none, one with a date, one without).  An         *)
(* analysis yields Some(result), or None when an exception leaves it.        *)

RepoRecords ==
    [has_name : BOOLEAN, is_fork : BOOLEAN, has_language : BOOLEAN,
     pushed_at : {"missing", "iso", "malformed"},
     commits : {"none", "dated", "undated"}]

\* repo['name'] raises KeyError, datetime.fromisoformat raises ValueError
reads_name_and_pushed_at(repo) == ~repo.has_name \/ repo.pushed_at = "malformed"

count_where(repos, Test(_)) == Cardinality({i \in 1..Len(repos) : Test(repos[i])})

\* analyzer.py:33-166: the languages loop reads repo['name'] and pushed_at of
\* every repository that has a language
analyze_skills(repos) ==
    IF \E i \in 1..Len(repos) : repos[i].has_language /\ reads_name_and_pushed_at(repos[i])
    THEN None
    ELSE Some([total_skills |-> IF count_where(repos, LAMBDA r : r.has_language) > 0
                                THEN 1 ELSE 0])

\* analyzer.py:189-303: a commit without a date is counted but not dated
analyze_contribution_patterns(repos) ==
    Some([total_commits |-> count_where(repos, LAMBDA r : r.commits # "none"),
          dated_commits |-> count_where(repos, LAMBDA r : r.commits = "dated")])

\* analyzer.py:305-400
classify_work_style(contribution_patterns) ==
    IF IsNone(contribution_patterns) THEN None
    ELSE Some([based_on_commits |-> Val(contribution_patterns).total_commits])

\* analyzer.py:415-507 for one repository that is not a fork, in hundredths:
\* documentation 25, testing 20, maintenance 30 plus 40 when pushed recently
repo_overall_score(repo) ==
    25 * 30 + 20 * 25 + (IF repo.pushed_at = "iso" THEN 70 ELSE 30) * 15

RECURSIVE sum_overall(_)
sum_overall(repos) ==
    IF repos = <<>> THEN 0
    ELSE (IF repos[1].is_fork THEN 0 ELSE repo_overall_score(repos[1]))
         + sum_overall(Tail(repos))

\* analyzer.py:402-527: forks are skipped, every other repository is read
assess_code_quality(repos) ==
    IF \E i \in 1..Len(repos) : ~repos[i].is_fork /\ reads_name_and_pushed_at(repos[i])
    THEN None
    ELSE LET scored == count_where(repos, LAMBDA r : ~r.is_fork)
         IN  Some([repository_scores |-> scored,
                   overall |-> IF scored = 0 THEN 0
                               ELSE RoundHalfEven(sum_overall(repos), scored)])

\* analyzer.py:540-620
analyze_learning_trajectory(skills_analysis) ==
    IF IsNone(skills_analysis) THEN None
    ELSE Some([new_skills_count |-> Val(skills_analysis).total_skills])

\* analyzer.py:631-657: the five calls in a row, none of them guarded
perform_complete_analysis(repos) ==
    LET skills_analysis == analyze_skills(repos)
        contribution_patterns == analyze_contribution_patterns(repos)
        work_style == classify_work_style(contribution_patterns)
        code_quality == assess_code_quality(repos)
        learning_trajectory == analyze_learning_trajectory(skills_analysis)
    IN  IF \E part \in {skills_analysis, contribution_patterns, work_style,
                        code_quality, learning_trajectory} : IsNone(part)
        THEN None
        ELSE Some([skills_analysis |-> Val(skills_analysis),
                   contribution_patterns |-> Val(contribution_patterns),
                   work_style |-> Val(work_style),
                   code_quality |-> Val(code_quality),
                   learning_trajectory |-> Val(learning_trajectory)])

MaxRepos == 2

AnInit ==
    /\ top_repos \in SeqsUpTo(RepoRecords, MaxRepos)
    /\ an_pc = "constructed"
    /\ complete_analysis = None

AnIdle ==
    /\ top_repos = <<>>
    /\ an_pc = "none"
    /\ complete_analysis = None

PerformCompleteAnalysis ==
    /\ an_pc = "constructed"
    /\ complete_analysis' = perform_complete_analysis(top_repos)
    /\ an_pc' = IF IsNone(perform_complete_analysis(top_repos)) THEN "raised"
                ELSE "returned"
    /\ UNCHANGED top_repos

----------------------------------------------------------------------------
(* Properties of GitHubAnalyzer (SpecAnalyzer) *)

\* C14: a failure inside one sub-analysis (a repository record with a missing
\* field) does not abort perform_complete_analysis: it returns a complete
\* result
C14_AnalysisAlwaysCompletes ==
    an_pc \in {"returned", "raised"}
        => /\ an_pc = "returned"
           /\ ~IsNone(complete_analysis)
           /\ DOMAIN Val(complete_analysis) =
                  {"skills_analysis", "contribution_patterns", "work_style",
                   "code_quality", "learning_trajectory"}

----------------------------------------------------------------------------
(* github-data-fetch/utils.py retry_on_rate_limit and the decorated methods  *)
(* of github-data-fetch/data_fetcher.py.  A message is a sequence of pieces  *)
(* of text, already in lower case; 'x' in str(e).lower() asks whether x is   *)
(* one of the pieces.                                                        *)

\* utils.py:59: the default initial_delay
INITIAL_DELAY == 60

\* what the GitHub client does on one call: it answers, or raises a
\* GithubException carrying the API's message
ClientBehaviours == {"ok", "rate_limit", "abuse", "not_found"}

client_message(client) ==
    IF client = "rate_limit" THEN <<"api ", "rate limit", " exceeded">>
    ELSE IF client = "abuse" THEN <<"you have triggered an ", "abuse", " detection mechanism">>
    ELSE <<"not found">>

contains(message, piece) == \E i \in 1..Len(message) : message[i] = piece

\* utils.py:69
is_rate_limit_error(message) == contains(message, "rate limit") \/ contains(message, "abuse")

\* one invocation of the wrapped function.  "raw" raises what the client
\* raises; fetch_user_profile (data_fetcher.py:56-94) wraps a GithubException
\* into Exception("Failed to fetch profile for <username>: <message>");
\* fetch_repositories (data_fetcher.py:96-160) catches it and returns []
invoke(method, username, client) ==
    IF client = "ok" THEN [raised |-> FALSE, value |-> "data", message |-> <<>>]
    ELSE IF method = "fetch_repositories"
         THEN [raised |-> FALSE, value |-> "[]", message |-> <<>>]
    ELSE IF method = "fetch_user_profile"
         THEN [raised |-> TRUE, value |-> "",
               message |-> <<"failed to fetch profile for ">> \o username \o <<": ">>
                           \o client_message(client)]
    ELSE [raised |-> TRUE, value |-> "", message |-> client_message(client)]

\* mutant of on_exception for comparison: the last attempt sleeps as well
on_exception_always_sleeping(message, attempt, max_retries) ==
    IF is_rate_limit_error(message) THEN "sleep" ELSE "raise"

\* utils.py:68-78: what the except clause does
on_exception(message, attempt, max_retries) ==
    IF is_rate_limit_error(message)
    THEN IF attempt < max_retries - 1 THEN "sleep" ELSE "raise"
    ELSE "raise"

MaxRetries == 3

FetchUsernames == {<<"octocat">>, <<"abuse", "r">>}

FetchInit ==
    /\ rt_method \in {"raw", "fetch_user_profile", "fetch_repositories"}
    /\ rt_username \in FetchUsernames
    /\ rt_max_retries \in IF rt_method = "raw" THEN 0..MaxRetries ELSE {3}
    /\ rt_attempt = 0
    /\ rt_delay = INITIAL_DELAY
    /\ rt_client = <<>>
    /\ rt_seen = <<>>
    /\ rt_waits = <<>>
    /\ rt_outcome = None
    /\ gh_request = None
    /\ gh_response = None

FetchIdle ==
    /\ rt_method = "none"
    /\ rt_username = <<>>
    /\ rt_max_retries = 0
    /\ rt_attempt = 0
    /\ rt_delay = 0
    /\ rt_client = <<>>
    /\ rt_seen = <<>>
    /\ rt_waits = <<>>
    /\ rt_outcome = None
    /\ gh_request = None
    /\ gh_response = None

\* utils.py:64-79: one turn of the for loop, or its end
RetryLoop ==
    /\ rt_method # "none"
    /\ IsNone(rt_outcome)
    /\ IF rt_attempt >= rt_max_retries
       THEN /\ rt_outcome' = Some([kind |-> "returned", value |-> "None", message |-> <<>>])
            /\ UNCHANGED <<rt_attempt, rt_delay, rt_client, rt_seen, rt_waits>>
       ELSE \E client \in ClientBehaviours :
              LET result == invoke(rt_method, rt_username, client)
                  todo == on_exception(result.message, rt_attempt, rt_max_retries)
              IN  /\ rt_client' = Append(rt_client, client)
                  /\ rt_attempt' = rt_attempt + 1
                  /\ rt_seen' = Append(rt_seen,
                                       IF ~result.raised THEN "returned"
                                       ELSE IF is_rate_limit_error(result.message)
                                            THEN "rate_limit" ELSE "other")
                  /\ IF ~result.raised
                     THEN /\ rt_outcome' = Some([kind |-> "returned", value |-> result.value,
                                                 message |-> <<>>])
                          /\ UNCHANGED <<rt_delay, rt_waits>>
                     ELSE IF todo = "sleep"
                     THEN /\ rt_waits' = Append(rt_waits, rt_delay)
                          /\ rt_delay' = rt_delay * 2
                          /\ UNCHANGED rt_outcome
                     ELSE /\ rt_outcome' = Some([kind |-> "raised", value |-> "",
                                                 message |-> result.message])
                          /\ UNCHANGED <<rt_delay, rt_waits>>
    /\ UNCHANGED <<rt_method, rt_username, rt_max_retries, gh_request, gh_response>>

----------------------------------------------------------------------------
(* api.py:604-700: POST /api/github/analyze *)

\* api.py:47-62: whether the github-data-fetch modules could be imported
\* depends on the installation; analyzer.py:26: GitHubAnalyzer.__init__ takes
\* the fetched data, so the call GitHubAnalyzer() at api.py:644 raises
\* TypeError before anything is fetched, and the handler at api.py:695-700
\* answers 500
analyze_github(request) ==
    IF ~request.has_username THEN 400
    ELSE IF ~request.username_valid THEN 400
    ELSE IF ~request.modules_available THEN 503
    ELSE 500

GithubRequests ==
    [has_username : BOOLEAN, username_valid : BOOLEAN, user_exists : BOOLEAN,
     modules_available : BOOLEAN]

PostGithubAnalyze ==
    /\ rt_method # "none"
    /\ IsNone(gh_response)
    /\ \E request \in GithubRequests :
         /\ gh_request' = Some(request)
         /\ gh_response' = Some(analyze_github(request))
    /\ UNCHANGED <<rt_method, rt_username, rt_max_retries, rt_attempt, rt_delay,
                   rt_client, rt_seen, rt_waits, rt_outcome>>

----------------------------------------------------------------------------
(* Properties of retry_on_rate_limit and the GitHub routes (SpecFetch) *)

\* C15: retry_on_rate_limit(max_retries=n) invokes the function at most n
\* times, waits 60 seconds before the first retry and twice the previous wait
\* before each later one, and after the n-th consecutive rate-limit failure
\* re-raises that error instead of retrying or returning a value
C15_BoundedDoublingRetry ==
    /\ Len(rt_client) <= rt_max_retries
    /\ Len(rt_waits) <= Max2(0, rt_max_retries - 1)
    /\ \A k \in 1..Len(rt_waits) : rt_waits[k] = 60 * 2 ^ (k - 1)
    /\ (/\ rt_max_retries >= 1
        /\ Len(rt_seen) = rt_max_retries
        /\ \A i \in 1..Len(rt_seen) : rt_seen[i] = "rate_limit")
           => /\ ~IsNone(rt_outcome)
              /\ Val(rt_outcome).kind = "raised"
              /\ is_rate_limit_error(Val(rt_outcome).message)
              /\ Len(rt_waits) = rt_max_retries - 1

\* C15 witness: three rate-limit failures in a row under max_retries=3: waits
\* of 60 and 120 seconds, then the error
C15_Witness ==
    /\ rt_method = "raw"
    /\ rt_max_retries = 3
    /\ rt_client = <<"rate_limit", "rate_limit", "rate_limit">>
    /\ rt_waits = <<60, 120>>
    /\ ~IsNone(rt_outcome)
    /\ Val(rt_outcome).kind = "raised"

\* C16: a decorated fetch is retried if and only if the GitHub client failed
\* with a rate-limit or abuse-limit error; any other failure propagates on
\* the attempt that met it, with no wait after it
C16_RetriedIffRateLimited ==
    rt_method \in {"fetch_user_profile", "fetch_repositories"}
        => \A i \in 1..Len(rt_client) :
              /\ rt_client[i] \in {"rate_limit", "abuse"} => rt_seen[i] = "rate_limit"
              /\ rt_client[i] \in {"not_found"}
                    => /\ rt_seen[i] = "other"
                       /\ i = Len(rt_client)
                       /\ Len(rt_waits) = i - 1
                       /\ ~IsNone(rt_outcome) /\ Val(rt_outcome).kind = "raised"

\* C18: when the GitHub user does not exist, POST /api/github/analyze with a
\* well-formed username answers 404
C18_MissingUserIs404 ==
    (/\ ~IsNone(gh_response)
     /\ Val(gh_request).has_username
     /\ Val(gh_request).username_valid
     /\ ~Val(gh_request).user_exists)
        => Val(gh_response) = 404

----------------------------------------------------------------------------
(* matcher.py: CandidateMatcher.  Scores are in hundredths of a point, the   *)
(* learning velocity in thousandths of a skill per month, the weighted sum   *)
(* in thousandths of a point.                                                *)

\* config.py:23-28, in tenths
MATCHING_WEIGHTS ==
    [current_fit |-> 4, growth_potential |-> 3, collaboration_fit |-> 2, code_quality |-> 1]

\* config.py:203-208, in thousandths of a point
MATCH_TIERS == [top |-> 85000, high |-> 70000, moderate |-> 50000, low |-> 0]

\* str.lower() on the skill names that occur
lower_skill(s) == IF s = "Python" THEN "python" ELSE IF s = "Docker" THEN "docker" ELSE s

RECURSIVE sum_confidence(_, _)
sum_confidence(skills, names) ==
    IF names = {} THEN 0
    ELSE LET n == CHOOSE x \in names : TRUE
         IN  skills[n].confidence + sum_confidence(skills, names \ {n})

\* matcher.py:33-83: required skills 60, preferred skills 30, average
\* confidence of the matching skills 10
calculate_current_fit(analysis, job) ==
    LET skills == analysis.skills
        required_skills == {lower_skill(s) : s \in job.required_skills}
        preferred_skills == {lower_skill(s) : s \in job.preferred_skills}
        candidate_skills == {lower_skill(s) : s \in DOMAIN skills}
        required_matches == required_skills \cap candidate_skills
        preferred_matches == preferred_skills \cap candidate_skills
        matching_skills == required_matches \cup preferred_matches
        originals == {s \in DOMAIN skills : lower_skill(s) \in matching_skills}
        R == Max2(1, Cardinality(required_skills))
        P == Max2(1, Cardinality(preferred_skills))
        N == Max2(1, Cardinality(originals))
        \* required_score + preferred_score + depth_score over the common
        \* denominator R * P * N * 10
        numerator == 6000 * Cardinality(required_matches) * P * N * 10
                     + 3000 * Cardinality(preferred_matches) * R * N * 10
                     + sum_confidence(skills, originals) * R * P
    IN  [score |-> Round2(numerator, R * P * N * 10),
         skill_gaps |-> required_skills \ candidate_skills]

\* matcher.py:85-139: adaptability 40, learning velocity against 0.5 skills a
\* month 30, new skills against 6 a year 30
calculate_growth_potential(analysis) ==
    LET learning == analysis.learning_trajectory
        \* tenths of a hundredth
        adaptability_score == 4 * learning.adaptability_score
        velocity_score == Min2(30000, 60 * learning.learning_velocity)
        recent_score == Min2(30000, 5000 * learning.new_skills_last_year)
    IN  [score |-> Round2(adaptability_score + velocity_score + recent_score, 10)]

\* matcher.py:141-209: work style 50 or 25, communication up to 30, team
\* dynamics up to 20.  The two elif branches at 165-168 repeat the first test
\* for the lower-case styles and add nothing
calculate_collaboration_fit(analysis, job) ==
    LET required_style == job.work_style
        primary_style == analysis.work_style.primary_style
        all_styles == analysis.work_style.all_styles
        commit_activity == analysis.contribution_patterns.commit_behavior
        pr_activity == analysis.contribution_patterns.pull_request_activity
        review_activity == analysis.contribution_patterns.code_review_behavior
        style_match ==
            IF \/ contains(primary_style, required_style)
               \/ \E i \in 1..Len(all_styles) : contains(all_styles[i], required_style)
            THEN 50 ELSE 25
        comm_score ==
            (IF commit_activity.uses_conventional_commits THEN 10 ELSE 0)
            + (IF commit_activity.avg_message_length > 40 THEN 10 ELSE 0)
            + (IF pr_activity.avg_comments_per_pr > 2 THEN 10 ELSE 0)
        team_score ==
            (IF review_activity.total_reviews_given > 0 THEN 10 ELSE 0)
            + (IF review_activity.sentiment_classification = "positive" THEN 10 ELSE 0)
    IN  [score |-> 100 * (style_match + comm_score + team_score)]

\* matcher.py:211-229
calculate_code_quality_score(analysis) ==
    [score |-> analysis.code_quality.aggregate_scores.overall]

\* matcher.py:273-282, on the weighted sum in thousandths
classify_tier(score) ==
    IF score >= MATCH_TIERS.top THEN "Top Match"
    ELSE IF score >= MATCH_TIERS.high THEN "High Match"
    ELSE IF score >= MATCH_TIERS.moderate THEN "Moderate Match"
    ELSE "Low Match"

\* matcher.py:231-271: the tier is computed from the weighted sum itself, the
\* returned overall_score is that sum rounded to two decimals
calculate_overall_match(analysis, job) ==
    LET current_fit == calculate_current_fit(analysis, job)
        growth_potential == calculate_growth_potential(analysis)
        collaboration_fit == calculate_collaboration_fit(analysis, job)
        code_quality == calculate_code_quality_score(analysis)
        overall_score == current_fit.score * MATCHING_WEIGHTS.current_fit
                         + growth_potential.score * MATCHING_WEIGHTS.growth_potential
                         + collaboration_fit.score * MATCHING_WEIGHTS.collaboration_fit
                         + code_quality.score * MATCHING_WEIGHTS.code_quality
    IN  [overall_score |-> Round2(overall_score, 10),
         tier |-> classify_tier(overall_score),
         components |-> [current_fit |-> current_fit,
                         growth_potential |-> growth_potential,
                         collaboration_fit |-> collaboration_fit,
                         code_quality |-> code_quality]]

\* analyses as GitHubAnalyzer produces them (analyzer.py:121-156, 393-400,
\* 509-523, 597-620): confidences and adaptability within 0..100, styles from
\* the five style names
SkillInventories ==
    {<<>>,
     [s \in {"Python"} |-> [confidence |-> 8030]],
     [s \in {"Python", "Docker"} |-> [confidence |-> IF s = "Python" THEN 10000 ELSE 7000]]}

WorkStyles ==
    {[primary_style |-> <<"collaborative">>, all_styles |-> << <<"collaborative">> >>],
     [primary_style |-> <<"solo", "developer">>,
      all_styles |-> << <<"solo", "developer">>, <<"async-friendly">> >>],
     [primary_style |-> <<"independent", "contributor">>,
      all_styles |-> << <<"independent", "contributor">> >>]}

LearningTrajectories ==
    [adaptability_score : {950, 10000}, learning_velocity : {83, 2000},
     new_skills_last_year : {0, 12}]

ContributionPatterns ==
    [commit_behavior : [uses_conventional_commits : BOOLEAN, avg_message_length : {10, 50}],
     pull_request_activity : [avg_comments_per_pr : {0, 3}],
     code_review_behavior : [total_reviews_given : {0, 1},
                             sentiment_classification : {"neutral", "positive"}]]

AggregateOverall == {0, 6150, 7000}

Analyses ==
    [skills : SkillInventories, work_style : WorkStyles,
     learning_trajectory : LearningTrajectories,
     contribution_patterns : ContributionPatterns,
     code_quality : [aggregate_scores : [overall : AggregateOverall]]]

JobRequirements ==
    [required_skills : {{}, {"Python"}, {"python", "docker"}},
     preferred_skills : {{}, {"Docker"}},
     work_style : {"collaborative", "solo"}]

MatchInit ==
    /\ mt_analysis \in Analyses
    /\ mt_job \in JobRequirements
    /\ mt_result = None

MatchIdle ==
    /\ mt_analysis = <<>>
    /\ mt_job = <<>>
    /\ mt_result = None

CalculateOverallMatch ==
    /\ mt_analysis # <<>>
    /\ IsNone(mt_result)
    /\ mt_result' = Some(calculate_overall_match(mt_analysis, mt_job))
    /\ UNCHANGED <<mt_analysis, mt_job>>

----------------------------------------------------------------------------
(* Properties of CandidateMatcher (SpecMatch) *)

\* the tier the cutoffs give to a score in hundredths
tier_of_reported(score) ==
    IF score >= 8500 THEN "Top Match"
    ELSE IF score >= 7000 THEN "High Match"
    ELSE IF score >= 5000 THEN "Moderate Match"
    ELSE "Low Match"

\* C17: each of the four component scores lies in [0,100], the overall score
\* is their sum weighted 0.40/0.30/0.20/0.10 (to the two decimals it is
\* reported with), hence in [0,100], and its tier is Top Match at >= 85, High
\* Match at >= 70, Moderate Match at >= 50 and Low Match below 50
C17_ScoresInRangeAndTiered ==
    ~IsNone(mt_result) =>
        LET r == Val(mt_result)
            c == r.components
            weighted == 4 * c.current_fit.score + 3 * c.growth_potential.score
                        + 2 * c.collaboration_fit.score + c.code_quality.score
        IN  /\ c.current_fit.score \in 0..10000
            /\ c.growth_potential.score \in 0..10000
            /\ c.collaboration_fit.score \in 0..10000
            /\ c.code_quality.score \in 0..10000
            /\ r.overall_score \in 0..10000
            /\ 10 * r.overall_score - weighted \in -5..5
            /\ r.tier = tier_of_reported(r.overall_score)

----------------------------------------------------------------------------
(* utils/session_manager.py:224-262: cleanup_old_sessions.  Time is counted  *)
(* in days.                                                                  *)

MaxDay == 3

\* what can lie in the base upload directory, in the order os.listdir gives
BaseEntries == <<"session_a", "session_b", "1700000000_extracted">>

\* session_manager.py:246: item.startswith('session_')
starts_with_session(item) == item \in {"session_a", "session_b"}

os_listdir(dirs) == SelectSeq(BaseEntries, LAMBDA item : item \in dirs)

\* session_manager.py:248-251: get_session_metadata raises ValueError when
\* metadata.json is missing, json.load or datetime.fromisoformat raise when
\* the file or its created_at cannot be read; otherwise the comparison with
\* cutoff_date = now - days decides
is_expired(metadata, item, today, days) ==
    /\ ~IsNone(metadata[item])
    /\ Val(metadata[item]).readable
    /\ Val(metadata[item]).created_at < today - days

\* the dry-run switch ignored: for comparison
cleanup_old_sessions_always_deleting(dirs, metadata, today, days, dry_run) ==
    LET deleted_sessions ==
            SelectSeq(os_listdir(dirs),
                      LAMBDA item : starts_with_session(item)
                                    /\ is_expired(metadata, item, today, days))
        gone == {deleted_sessions[i] : i \in 1..Len(deleted_sessions)}
    IN  [deleted_sessions |-> deleted_sessions,
         dirs |-> dirs \ gone,
         metadata |-> [item \in DOMAIN metadata |->
                          IF item \in gone THEN None ELSE metadata[item]]]

\* every entry is deleted that is old by the directory's own age: for comparison
cleanup_old_sessions_by_directory_age(dirs, created, today, days) ==
    {item \in dirs : starts_with_session(item) /\ created[item] < today - days}

\* session_manager.py:241-262.  An exception inside the loop body is logged
\* and the entry is skipped (258-260)
cleanup_old_sessions(dirs, metadata, today, days, dry_run) ==
    LET deleted_sessions ==
            SelectSeq(os_listdir(dirs),
                      LAMBDA item : starts_with_session(item)
                                    /\ is_expired(metadata, item, today, days))
        gone == IF dry_run THEN {}
                ELSE {deleted_sessions[i] : i \in 1..Len(deleted_sessions)}
    IN  [deleted_sessions |-> deleted_sessions,
         dirs |-> dirs \ gone,
         metadata |-> [item \in DOMAIN metadata |->
                          IF item \in gone THEN None ELSE metadata[item]]]

CleanInit ==
    /\ cl_today = 0
    /\ cl_dirs = {}
    /\ cl_created = [item \in {} |-> 0]
    /\ cl_metadata = [item \in {} |-> None]
    /\ cl_last = None

CleanIdle ==
    /\ cl_today = -1
    /\ cl_dirs = {}
    /\ cl_created = <<>>
    /\ cl_metadata = <<>>
    /\ cl_last = None

\* a day goes by
NextDay ==
    /\ cl_today >= 0
    /\ cl_today < MaxDay
    /\ cl_today' = cl_today + 1
    /\ cl_last' = None
    /\ UNCHANGED <<cl_dirs, cl_created, cl_metadata>>

\* session_manager.py:66-71 (create_session) and api.py:543-544 (the
\* extraction directory of POST /api/rank): a directory appears
MakeDirectory ==
    /\ cl_today >= 0
    /\ \E item \in {BaseEntries[i] : i \in 1..Len(BaseEntries)} \ cl_dirs :
         /\ cl_dirs' = cl_dirs \cup {item}
         /\ cl_created' = (item :> cl_today) @@ cl_created
         /\ cl_metadata' = (item :> None) @@ cl_metadata
    /\ cl_last' = None
    /\ UNCHANGED cl_today

\* session_manager.py:73-93: create_session goes on to write metadata.json,
\* with created_at = now unless the caller's metadata replaces it (86-87)
SaveMetadata ==
    /\ cl_today >= 0
    /\ \E item \in cl_dirs, readable \in BOOLEAN :
         /\ starts_with_session(item)
         /\ IsNone(cl_metadata[item])
         /\ cl_created[item] = cl_today
         /\ cl_metadata' = [cl_metadata EXCEPT ![item] =
                               Some([readable |-> readable, created_at |-> cl_today])]
    /\ cl_last' = None
    /\ UNCHANGED <<cl_today, cl_dirs, cl_created>>

CleanupDays == {0, 1}

CleanupOldSessions ==
    /\ cl_today >= 0
    /\ \E days \in CleanupDays, dry_run \in BOOLEAN :
         LET result == cleanup_old_sessions(cl_dirs, cl_metadata, cl_today, days, dry_run)
         IN  /\ cl_dirs' = result.dirs
             /\ cl_metadata' = result.metadata
             /\ cl_last' = Some([days |-> days, dry_run |-> dry_run,
                                 returned |-> result.deleted_sessions,
                                 dirs_before |-> cl_dirs,
                                 metadata_before |-> cl_metadata])
    /\ UNCHANGED <<cl_today, cl_created>>

----------------------------------------------------------------------------
(* Properties of cleanup_old_sessions (SpecCleanup) *)

\* C21: after cleanup_old_sessions(days, dry_run=False) has returned, no
\* session directory created more than `days` days ago remains, sessions
\* without a readable metadata.json included
C21_NoOldSessionRemains ==
    (~IsNone(cl_last) /\ ~Val(cl_last).dry_run)
        => cleanup_old_sessions_by_directory_age(cl_dirs, cl_created, cl_today,
                                                 Val(cl_last).days) = {}

----------------------------------------------------------------------------
(* utils/dynamic_leaderboard.py: DynamicLeaderboardGenerator *)

\* leaderboard.py:121-134: self.leaderboard[:n]
get_top_candidates(ranked, n) == SubSeq(ranked, 1, Min2(n, Len(ranked)))

\* dynamic_leaderboard.py:41-152, with the session's files and leaderboard.json
\* before the call; the result has the files and leaderboard.json after it
generate_leaderboard(cands, files, json, wl, wg, ms, top_n) ==
    LET \* 74-83: a missing results.csv or reports directory is created
        prepared == files \cup {"results.csv", "reports"}
    IN  IF cands = <<>>
        THEN [result |-> [leaderboard |-> <<>>, total_candidates |-> 0],
              files |-> prepared, json |-> json]
        ELSE LET ranked_candidates ==
                     calculate_scores(cands,
                                      init_weight(Some(wl), LINKEDIN_WEIGHT),
                                      init_weight(Some(wg), GITHUB_WEIGHT),
                                      init_min_score(Some(ms)))
                 result == [leaderboard |-> get_top_candidates(ranked_candidates, top_n),
                            total_candidates |-> Len(ranked_candidates),
                            top_n |-> top_n,
                            weights |-> [linkedin |-> wl,
                                         github |-> wg],
                            min_score |-> ms]
             IN  \* 139: _save_leaderboard_to_session (228-246)
                 [result |-> result,
                  files |-> prepared \cup {"leaderboard.json"},
                  json |-> Some(result)]

\* dynamic_leaderboard.py:154-190: generate_leaderboard with top_n=9999 and
\* the default min_score, then a search by lower-cased name
get_candidate_rank(cands, files, json, candidate_name, wl, wg) ==
    LET generated == generate_leaderboard(cands, files, json, wl,
                                          wg, 0, 9999)
        hits == SelectSeq(generated.result.leaderboard,
                          LAMBDA c : lower(c.name) = lower(candidate_name))
    IN  [found |-> IF hits = <<>> THEN None ELSE Some(hits[1]),
         files |-> generated.files, json |-> generated.json]

\* the candidates a session's results.csv and reports can hold
SessionCandidates ==
    {<<>>,
     << CandidateScore(<<"a">>, Some(8000000), Some(6000000), None, None, None) >>,
     << CandidateScore(<<"a">>, Some(8000000), Some(6000000), None, None, None),
        CandidateScore(<<"b">>, Some(5000000), None, None, None, None) >>}

DynWeights == {<<5, 5>>, <<7, 3>>}

DynMinScores == {0, 6000000}

TopNs == {1, 20}

LookupNames == {<<"A">>, <<"b">>, <<"a", "b">>}

DynInit ==
    /\ dl_candidates \in SessionCandidates
    /\ dl_files \in {{}, {"results.csv", "reports"}}
    /\ dl_leaderboard_json = None
    /\ dl_lookup = None

DynIdle ==
    /\ dl_candidates = <<>>
    /\ dl_files = {"idle"}
    /\ dl_leaderboard_json = None
    /\ dl_lookup = None

GenerateLeaderboard ==
    /\ dl_files # {"idle"}
    /\ \E w \in DynWeights, ms \in DynMinScores, top_n \in TopNs :
         LET generated == generate_leaderboard(dl_candidates, dl_files, dl_leaderboard_json,
                                               w[1], w[2], ms, top_n)
         IN  /\ dl_files' = generated.files
             /\ dl_leaderboard_json' = generated.json
    /\ dl_lookup' = None
    /\ UNCHANGED dl_candidates

GetCandidateRank ==
    /\ dl_files # {"idle"}
    /\ \E candidate_name \in LookupNames, w \in DynWeights :
         LET looked == get_candidate_rank(dl_candidates, dl_files, dl_leaderboard_json,
                                          candidate_name, w[1], w[2])
         IN  /\ dl_files' = looked.files
             /\ dl_leaderboard_json' = looked.json
             /\ dl_lookup' = Some([candidate_name |-> candidate_name,
                                   found |-> looked.found,
                                   files_before |-> dl_files,
                                   json_before |-> dl_leaderboard_json])
    /\ UNCHANGED dl_candidates

----------------------------------------------------------------------------
(* Properties of DynamicLeaderboardGenerator (SpecDynamic) *)

\* C23: get_candidate_rank is read-only on the session: it creates no file
\* and leaves leaderboard.json (entries, top_n, weights) as the last
\* generate_leaderboard call wrote it
C23_LookupIsReadOnly ==
    ~IsNone(dl_lookup) =>
        /\ dl_files = Val(dl_lookup).files_before
        /\ dl_leaderboard_json = Val(dl_lookup).json_before

----------------------------------------------------------------------------
(* ibhanwork/emailsender.py: EmailService *)

\* what the SMTP server does to a connection attempt: smtplib.SMTP() itself
\* fails, starttls()/login() fail on the connection it opened, or all succeed
ConnectOutcomes == {"refused", "login_failed", "connected"}

\* emailsender.py:69-91.  self.smtp_connection is assigned before starttls
\* and login, and no except clause closes or clears it.  A connection object
\* that the assignment leaves unreferenced is closed when the interpreter
\* reclaims it, at once or later
connect(smtp_connection, open, outcome, fresh, reclaimed) ==
    IF outcome = "refused"
    THEN [ok |-> FALSE, smtp_connection |-> smtp_connection, open |-> open]
    ELSE [ok |-> outcome = "connected",
          smtp_connection |-> Some(fresh),
          open |-> (IF reclaimed /\ ~IsNone(smtp_connection)
                    THEN open \ {Val(smtp_connection)} ELSE open) \cup {fresh}]

\* emailsender.py:93-102: quit() ends the connection whether or not it raises
disconnect(smtp_connection, open) ==
    IF IsNone(smtp_connection)
    THEN [smtp_connection |-> smtp_connection, open |-> open]
    ELSE [smtp_connection |-> None, open |-> open \ {Val(smtp_connection)}]

\* emailsender.py:346-371: the candidates without an email address and those
\* whose sendmail raised are counted as failed
is_sent(candidate) == candidate.has_email /\ candidate.accepted

names_of(cands) == [i \in 1..Len(cands) |-> cands[i].name]

\* emailsender.py:306-394
send_bulk_emails(smtp_connection, open, cands, outcome, fresh, reclaimed) ==
    IF cands = <<>>
    THEN [result |-> [success |-> FALSE, error |-> "No candidates provided",
                      sent |-> 0, failed |-> 0, total |-> 0,
                      sent_to |-> <<>>, failed_to |-> <<>>],
          smtp_connection |-> smtp_connection, open |-> open]
    ELSE LET connected == connect(smtp_connection, open, outcome, fresh, reclaimed)
         IN  IF ~connected.ok
             THEN [result |-> [success |-> FALSE,
                               error |-> "Failed to connect to SMTP server",
                               sent |-> 0, failed |-> 0, total |-> Len(cands),
                               sent_to |-> <<>>, failed_to |-> <<>>],
                   smtp_connection |-> connected.smtp_connection,
                   open |-> connected.open]
             ELSE LET closed == disconnect(connected.smtp_connection, connected.open)
                      sent_to == SelectSeq(cands, is_sent)
                      failed_to == SelectSeq(cands, LAMBDA c : ~is_sent(c))
                  IN  [result |-> [success |-> Len(sent_to) > 0, error |-> "",
                                   sent |-> Len(sent_to),
                                   failed |-> Len(failed_to),
                                   total |-> Len(cands),
                                   sent_to |-> names_of(sent_to),
                                   failed_to |-> names_of(failed_to)],
                       smtp_connection |-> closed.smtp_connection,
                       open |-> closed.open]

MaxBulkCalls == 3

MaxRecipients == 2

Recipients == [name : {"a", "b"}, has_email : BOOLEAN, accepted : BOOLEAN]

\* emailsender.py:56-66: __init__
MailInit ==
    /\ em_smtp_connection = None
    /\ em_open = {}
    /\ em_calls = 0
    /\ em_result = None

MailIdle ==
    /\ em_smtp_connection = None
    /\ em_open = {}
    /\ em_calls = -1
    /\ em_result = None

SendBulkEmails ==
    /\ em_calls >= 0
    /\ em_calls < MaxBulkCalls
    /\ \E cands \in SeqsUpTo(Recipients, MaxRecipients), outcome \in ConnectOutcomes,
          reclaimed \in BOOLEAN :
         LET done == send_bulk_emails(em_smtp_connection, em_open, cands, outcome,
                                      em_calls + 1, reclaimed)
         IN  /\ em_smtp_connection' = done.smtp_connection
             /\ em_open' = done.open
             /\ em_result' = Some(done.result)
    /\ em_calls' = em_calls + 1

----------------------------------------------------------------------------
(* Properties of EmailService (SpecMail) *)

\* C24: whenever send_bulk_emails returns, on every path, the EmailService
\* holds no open SMTP connection: what the call opened is closed and
\* smtp_connection is None
C24_NoConnectionLeftOpen ==
    ~IsNone(em_result) =>
        /\ IsNone(em_smtp_connection)
        /\ em_open = {}

----------------------------------------------------------------------------
(* api.py:159-217: is_safe_path and safe_extract_zip.  Path strings are      *)
(* sequences of tokens as above; a directory name may be made of several     *)
(* tokens.                                                                   *)

\* os.path.normpath on the names of an absolute path: "" and "." are dropped,
\* ".." drops the name before it, without looking at the file system
RECURSIVE normalise(_, _)
normalise(done, names) ==
    IF names = <<>> THEN done
    ELSE IF names[1] = <<>> \/ names[1] = <<".">> THEN normalise(done, Tail(names))
    ELSE IF names[1] = <<"..">> THEN normalise(parent_dir(done), Tail(names))
    ELSE normalise(Append(done, names[1]), Tail(names))

RECURSIVE join_names(_)
join_names(names) ==
    IF names = <<>> THEN <<>>
    ELSE <<"/">> \o names[1] \o join_names(Tail(names))

\* os.path.abspath of an absolute path, as a string
os_path_abspath(path) ==
    LET names == normalise(<<>>, split_path(path, <<>>))
    IN  IF names = <<>> THEN <<"/">> ELSE join_names(names)

\* a comparison of whole names: for comparison
is_safe_path_by_names(base_path, target_path) ==
    IsPrefix(normalise(<<>>, split_path(base_path, <<>>)),
             normalise(<<>>, split_path(target_path, <<>>)))

\* api.py:159-175: target.startswith(base) on the two strings
is_safe_path(base_path, target_path) ==
    IsPrefix(os_path_abspath(base_path), os_path_abspath(target_path))

\* api.py:178-217.  oversized stands for an archive beyond MAX_ZIP_FILES or
\* MAX_ZIP_EXTRACTED_SIZE (lines 200-204)
safe_extract_zip(archive, extract_dir) ==
    IF archive.oversized /\ archive.entries # <<>>
    THEN [success |-> FALSE, error |-> "too large"]
    ELSE IF \E i \in 1..Len(archive.entries) :
               ~is_safe_path(extract_dir, os_path_join(extract_dir, archive.entries[i]))
    THEN [success |-> FALSE, error |-> "unsafe path"]
    ELSE [success |-> TRUE, error |-> ""]

\* api.py:543
TheExtractDir == <<"/", "uploads", "/", "1_extracted">>

\* file names an archive can carry
EntryNames ==
    {<<"cv.pdf">>,
     <<"sub", "/", "..", "/", "cv.pdf">>,
     <<"..", "/", "cv.pdf">>,
     <<"..", "/", "1_extracted", "_old", "/", "cv.pdf">>,
     <<"..", "/", "1_extracted", "/", "cv.pdf">>,
     <<"/", "etc", "/", "cv.pdf">>}

MaxEntries == 2

ZipInit ==
    /\ zp_archive \in [entries : SeqsUpTo(EntryNames, MaxEntries), oversized : BOOLEAN]
    /\ zp_result = None

ZipIdle ==
    /\ zp_archive = <<>>
    /\ zp_result = None

SafeExtractZip ==
    /\ zp_archive # <<>>
    /\ IsNone(zp_result)
    /\ zp_result' = Some(safe_extract_zip(zp_archive, TheExtractDir))
    /\ UNCHANGED zp_archive

----------------------------------------------------------------------------
(* Properties of safe_extract_zip (SpecZip) *)

\* C26: is_safe_path answers True only for a target inside the base
\* directory, so safe_extract_zip rejects every archive with an entry whose
\* path resolves outside the extraction directory, a sibling directory whose
\* name starts with the extraction directory's name included
C26_OutsideEntriesRejected ==
    (~IsNone(zp_result) /\ Val(zp_result).success)
        => \A i \in 1..Len(zp_archive.entries) :
              is_safe_path_by_names(TheExtractDir,
                                    os_path_join(TheExtractDir, zp_archive.entries[i]))

----------------------------------------------------------------------------
(* candidate_scorer.py: CompatibilityScorer.calculate_final_score and        *)
(* CandidateScorer.  Compatibility scores are in units of 1e-4 (they are     *)
(* rounded to four decimals, lines 170 and 258), weights in tenths.  A       *)
(* candidate is told by the compatibility score each of its data sources     *)
(* gives, None for a source it has no data for.                              *)

\* candidate_scorer.py:272-339; None when the division at 301-306 raises
\* ZeroDivisionError.  The tier is taken from the unrounded score
calculate_final_score(github_linkedin_score, resume_score, w) ==
    LET used == IF IsNone(w) THEN [github_linkedin |-> 5, resume |-> 5] ELSE Val(w)
        total_weight == used.github_linkedin + used.resume
        weighted == github_linkedin_score * used.github_linkedin
                    + resume_score * used.resume
    IN  IF total_weight = 0 THEN None
        ELSE Some([final_score |-> Round2(weighted, total_weight),
                   tier |-> IF weighted >= 8000 * total_weight THEN "Excellent"
                            ELSE IF weighted >= 6500 * total_weight THEN "Good"
                            ELSE IF weighted >= 5000 * total_weight THEN "Fair"
                            ELSE "Poor"])

\* candidate_scorer.py:425, 431: the tier of a score that came from one source
single_source_tier(score) ==
    IF score >= 6500 THEN "Good" ELSE IF score >= 5000 THEN "Fair" ELSE "Poor"

\* candidate_scorer.py:358-439; None when calculate_final_score raised
score_candidate(candidate, w) ==
    LET gl == candidate.github_linkedin
        rs == candidate.resume
    IN  IF ~IsNone(gl) /\ ~IsNone(rs)
        THEN LET final == calculate_final_score(Val(gl), Val(rs), w)
             IN  IF IsNone(final) THEN None
                 ELSE Some([candidate_name |-> candidate.name,
                            final_score |-> Val(final).final_score,
                            tier |-> Val(final).tier,
                            sources |-> 2, rank |-> 0])
        ELSE IF ~IsNone(gl)
        THEN Some([candidate_name |-> candidate.name, final_score |-> Val(gl),
                   tier |-> single_source_tier(Val(gl)), sources |-> 1, rank |-> 0])
        ELSE IF ~IsNone(rs)
        THEN Some([candidate_name |-> candidate.name, final_score |-> Val(rs),
                   tier |-> single_source_tier(Val(rs)), sources |-> 1, rank |-> 0])
        ELSE Some([candidate_name |-> candidate.name, final_score |-> 0,
                   tier |-> "No Data", sources |-> 0, rank |-> 0])

\* candidate_scorer.py:441-487: a candidate whose scoring raised is logged and
\* skipped (474-476), the others are sorted and ranked
score_multiple_candidates(cands, w) ==
    LET results == [i \in 1..Len(cands) |-> score_candidate(cands[i], w)]
        scored == SelectSeq(results, LAMBDA r : ~IsNone(r))
    IN  assign_ranks(sort_desc([i \in 1..Len(scored) |-> Val(scored[i])], "final_score"))

MaxScored == 2

CompatibilityScores == {None, Some(4000), Some(8500)}

CandidateInputs ==
    [name : {"a", "b"}, github_linkedin : CompatibilityScores, resume : CompatibilityScores]

ScorerWeights ==
    {None, Some([github_linkedin |-> 7, resume |-> 3]),
     Some([github_linkedin |-> 0, resume |-> 0])}

CandInit ==
    /\ cs_candidates \in SeqsUpTo(CandidateInputs, MaxScored)
    /\ cs_weights \in ScorerWeights
    /\ cs_ranked = None

CandIdle ==
    /\ cs_candidates = <<>>
    /\ cs_weights = None
    /\ cs_ranked = None

ScoreMultipleCandidates ==
    /\ IsNone(cs_ranked)
    /\ cs_ranked' = Some(score_multiple_candidates(cs_candidates, cs_weights))
    /\ UNCHANGED <<cs_candidates, cs_weights>>

----------------------------------------------------------------------------
(* Properties of CandidateScorer (SpecCandidates) *)

\* C27: score_multiple_candidates returns exactly one ranked entry per input
\* candidate, with ranks 1..n in non-increasing order of final_score, for
\* every weights argument, weights that sum to 0 included
C27_EveryCandidateRanked ==
    ~IsNone(cs_ranked) =>
        LET ranked == Val(cs_ranked)
        IN  /\ Len(ranked) = Len(cs_candidates)
            /\ \A name \in {"a", "b"} :
                  Cardinality({i \in 1..Len(ranked) : ranked[i].candidate_name = name})
                  = Cardinality({i \in 1..Len(cs_candidates) : cs_candidates[i].name = name})
            /\ \A i \in 1..Len(ranked) : ranked[i].rank = i
            /\ \A i \in 1..Len(ranked) - 1 :
                  ranked[i].final_score >= ranked[i + 1].final_score

\* the tier the cutoffs give to a final score
tier_by_cutoffs(final_score) ==
    IF final_score >= 8000 THEN "Excellent"
    ELSE IF final_score >= 6500 THEN "Good"
    ELSE IF final_score >= 5000 THEN "Fair"
    ELSE "Poor"

\* C28: the tier score_candidate reports is a function of the final score
\* alone, with the cutoffs Excellent >= 0.80, Good >= 0.65, Fair >= 0.50, Poor
\* otherwise, whether the score came from both data sources or from one
C28_TierFromFinalScoreAlone ==
    ~IsNone(cs_ranked) =>
        \A i \in 1..Len(Val(cs_ranked)) :
            Val(cs_ranked)[i].sources >= 1
                => Val(cs_ranked)[i].tier = tier_by_cutoffs(Val(cs_ranked)[i].final_score)

----------------------------------------------------------------------------
(* The specifications *)

Init == LBInit /\ SiteInit /\ FnIdle /\ NameIdle /\ FileIdle /\ SessIdle
    /\ MetaIdle /\ RankIdle /\ SimIdle /\ AnIdle /\ FetchIdle /\ MatchIdle
    /\ CleanIdle /\ DynIdle /\ MailIdle /\ ZipIdle /\ CandIdle

Next ==
    \/ AddCandidate
         /\ UNCHANGED <<varsFn, varsSite, varsName, varsFile, varsSess,
                       varsMeta, varsRank, varsSim, varsAn, varsFetch,
                       varsMatch, varsClean, varsDyn, varsMail, varsZip,
                       varsCand>>
    \/ NewLeaderboardGenerator
         /\ UNCHANGED <<varsFn, varsSite, varsName, varsFile, varsSess,
                       varsMeta, varsRank, varsSim, varsAn, varsFetch,
                       varsMatch, varsClean, varsDyn, varsMail, varsZip,
                       varsCand>>
    \/ CalculateScores
         /\ UNCHANGED <<varsFn, varsSite, varsName, varsFile, varsSess,
                       varsMeta, varsRank, varsSim, varsAn, varsFetch,
                       varsMatch, varsClean, varsDyn, varsMail, varsZip,
                       varsCand>>
    \/ AddRequestCandidate
         /\ UNCHANGED <<varsFn, varsLB, varsName, varsFile, varsSess, varsMeta,
                       varsRank, varsSim, varsAn, varsFetch, varsMatch,
                       varsClean, varsDyn, varsMail, varsZip, varsCand>>
    \/ PostLeaderboard
         /\ UNCHANGED <<varsFn, varsLB, varsName, varsFile, varsSess, varsMeta,
                       varsRank, varsSim, varsAn, varsFetch, varsMatch,
                       varsClean, varsDyn, varsMail, varsZip, varsCand>>
    \/ ServiceGenerateLeaderboard
         /\ UNCHANGED <<varsFn, varsLB, varsName, varsFile, varsSess, varsMeta,
                       varsRank, varsSim, varsAn, varsFetch, varsMatch,
                       varsClean, varsDyn, varsMail, varsZip, varsCand>>

Spec == Init /\ [][Next]_vars

InitScore == FnInit /\ LBIdle /\ SiteIdle /\ NameIdle /\ FileIdle /\ SessIdle
    /\ MetaIdle /\ RankIdle /\ SimIdle /\ AnIdle /\ FetchIdle /\ MatchIdle
    /\ CleanIdle /\ DynIdle /\ MailIdle /\ ZipIdle /\ CandIdle

NextScore ==
    \/ CallCombinedScore
         /\ UNCHANGED <<varsLB, varsSite, varsName, varsFile, varsSess,
                       varsMeta, varsRank, varsSim, varsAn, varsFetch,
                       varsMatch, varsClean, varsDyn, varsMail, varsZip,
                       varsCand>>
    \/ CallClassifyScore
         /\ UNCHANGED <<varsLB, varsSite, varsName, varsFile, varsSess,
                       varsMeta, varsRank, varsSim, varsAn, varsFetch,
                       varsMatch, varsClean, varsDyn, varsMail, varsZip,
                       varsCand>>

SpecScore == InitScore /\ [][NextScore]_vars

InitName == NameInit /\ FnIdle /\ LBIdle /\ SiteIdle /\ FileIdle /\ SessIdle
    /\ MetaIdle /\ RankIdle /\ SimIdle /\ AnIdle /\ FetchIdle /\ MatchIdle
    /\ CleanIdle /\ DynIdle /\ MailIdle /\ ZipIdle /\ CandIdle

NextName ==
    \/ ChangeCase
         /\ UNCHANGED <<varsFn, varsLB, varsSite, varsFile, varsSess, varsMeta,
                       varsRank, varsSim, varsAn, varsFetch, varsMatch,
                       varsClean, varsDyn, varsMail, varsZip, varsCand>>
    \/ InsertPunctuation
         /\ UNCHANGED <<varsFn, varsLB, varsSite, varsFile, varsSess, varsMeta,
                       varsRank, varsSim, varsAn, varsFetch, varsMatch,
                       varsClean, varsDyn, varsMail, varsZip, varsCand>>
    \/ InsertWhitespace
         /\ UNCHANGED <<varsFn, varsLB, varsSite, varsFile, varsSess, varsMeta,
                       varsRank, varsSim, varsAn, varsFetch, varsMatch,
                       varsClean, varsDyn, varsMail, varsZip, varsCand>>
    \/ NormalizeName
         /\ UNCHANGED <<varsFn, varsLB, varsSite, varsFile, varsSess, varsMeta,
                       varsRank, varsSim, varsAn, varsFetch, varsMatch,
                       varsClean, varsDyn, varsMail, varsZip, varsCand>>
    \/ NormalizeNameAgain
         /\ UNCHANGED <<varsFn, varsLB, varsSite, varsFile, varsSess, varsMeta,
                       varsRank, varsSim, varsAn, varsFetch, varsMatch,
                       varsClean, varsDyn, varsMail, varsZip, varsCand>>
    \/ MergeCandidateData
         /\ UNCHANGED <<varsFn, varsLB, varsSite, varsFile, varsSess, varsMeta,
                       varsRank, varsSim, varsAn, varsFetch, varsMatch,
                       varsClean, varsDyn, varsMail, varsZip, varsCand>>

SpecName == InitName /\ [][NextName]_vars

InitFile == FileInit /\ FnIdle /\ LBIdle /\ SiteIdle /\ NameIdle /\ SessIdle
    /\ MetaIdle /\ RankIdle /\ SimIdle /\ AnIdle /\ FetchIdle /\ MatchIdle
    /\ CleanIdle /\ DynIdle /\ MailIdle /\ ZipIdle /\ CandIdle

NextFile ==
    \/ GenerateAnalysis
         /\ UNCHANGED <<varsFn, varsLB, varsSite, varsName, varsSess, varsMeta,
                       varsRank, varsSim, varsAn, varsFetch, varsMatch,
                       varsClean, varsDyn, varsMail, varsZip, varsCand>>
    \/ LoadGithubScores
         /\ UNCHANGED <<varsFn, varsLB, varsSite, varsName, varsSess, varsMeta,
                       varsRank, varsSim, varsAn, varsFetch, varsMatch,
                       varsClean, varsDyn, varsMail, varsZip, varsCand>>

SpecFile == InitFile /\ [][NextFile]_vars

InitSession == SessInit /\ FnIdle /\ LBIdle /\ SiteIdle /\ NameIdle
    /\ FileIdle /\ MetaIdle /\ RankIdle /\ SimIdle /\ AnIdle /\ FetchIdle
    /\ MatchIdle /\ CleanIdle /\ DynIdle /\ MailIdle /\ ZipIdle /\ CandIdle

NextSession ==
    \/ Tick
         /\ UNCHANGED <<varsFn, varsLB, varsSite, varsName, varsFile, varsMeta,
                       varsRank, varsSim, varsAn, varsFetch, varsMatch,
                       varsClean, varsDyn, varsMail, varsZip, varsCand>>
    \/ CreateSession
         /\ UNCHANGED <<varsFn, varsLB, varsSite, varsName, varsFile, varsMeta,
                       varsRank, varsSim, varsAn, varsFetch, varsMatch,
                       varsClean, varsDyn, varsMail, varsZip, varsCand>>
    \/ GetSessionDir
         /\ UNCHANGED <<varsFn, varsLB, varsSite, varsName, varsFile, varsMeta,
                       varsRank, varsSim, varsAn, varsFetch, varsMatch,
                       varsClean, varsDyn, varsMail, varsZip, varsCand>>
    \/ DeleteSession
         /\ UNCHANGED <<varsFn, varsLB, varsSite, varsName, varsFile, varsMeta,
                       varsRank, varsSim, varsAn, varsFetch, varsMatch,
                       varsClean, varsDyn, varsMail, varsZip, varsCand>>

SpecSession == InitSession /\ [][NextSession]_vars

InitMetadata == MetaInit /\ FnIdle /\ LBIdle /\ SiteIdle /\ NameIdle
    /\ FileIdle /\ SessIdle /\ RankIdle /\ SimIdle /\ AnIdle /\ FetchIdle
    /\ MatchIdle /\ CleanIdle /\ DynIdle /\ MailIdle /\ ZipIdle /\ CandIdle

NextMetadata ==
    \/ CallUpdate
         /\ UNCHANGED <<varsFn, varsLB, varsSite, varsName, varsFile, varsSess,
                       varsRank, varsSim, varsAn, varsFetch, varsMatch,
                       varsClean, varsDyn, varsMail, varsZip, varsCand>>
    \/ ReadMetadata
         /\ UNCHANGED <<varsFn, varsLB, varsSite, varsName, varsFile, varsSess,
                       varsRank, varsSim, varsAn, varsFetch, varsMatch,
                       varsClean, varsDyn, varsMail, varsZip, varsCand>>
    \/ OpenForWriting
         /\ UNCHANGED <<varsFn, varsLB, varsSite, varsName, varsFile, varsSess,
                       varsRank, varsSim, varsAn, varsFetch, varsMatch,
                       varsClean, varsDyn, varsMail, varsZip, varsCand>>
    \/ DumpMetadata
         /\ UNCHANGED <<varsFn, varsLB, varsSite, varsName, varsFile, varsSess,
                       varsRank, varsSim, varsAn, varsFetch, varsMatch,
                       varsClean, varsDyn, varsMail, varsZip, varsCand>>

SpecMetadata == InitMetadata /\ [][NextMetadata]_vars

InitRank == RankInit /\ FnIdle /\ LBIdle /\ SiteIdle /\ NameIdle /\ FileIdle
    /\ SessIdle /\ MetaIdle /\ SimIdle /\ AnIdle /\ FetchIdle /\ MatchIdle
    /\ CleanIdle /\ DynIdle /\ MailIdle /\ ZipIdle /\ CandIdle

NextRank ==
    \/ RankTick
         /\ UNCHANGED <<varsFn, varsLB, varsSite, varsName, varsFile, varsSess,
                       varsMeta, varsSim, varsAn, varsFetch, varsMatch,
                       varsClean, varsDyn, varsMail, varsZip, varsCand>>
    \/ SaveUpload
         /\ UNCHANGED <<varsFn, varsLB, varsSite, varsName, varsFile, varsSess,
                       varsMeta, varsSim, varsAn, varsFetch, varsMatch,
                       varsClean, varsDyn, varsMail, varsZip, varsCand>>
    \/ ExtractZip
         /\ UNCHANGED <<varsFn, varsLB, varsSite, varsName, varsFile, varsSess,
                       varsMeta, varsSim, varsAn, varsFetch, varsMatch,
                       varsClean, varsDyn, varsMail, varsZip, varsCand>>
    \/ ProcessExtracted
         /\ UNCHANGED <<varsFn, varsLB, varsSite, varsName, varsFile, varsSess,
                       varsMeta, varsSim, varsAn, varsFetch, varsMatch,
                       varsClean, varsDyn, varsMail, varsZip, varsCand>>
    \/ ProcessSingle
         /\ UNCHANGED <<varsFn, varsLB, varsSite, varsName, varsFile, varsSess,
                       varsMeta, varsSim, varsAn, varsFetch, varsMatch,
                       varsClean, varsDyn, varsMail, varsZip, varsCand>>
    \/ RemoveUpload
         /\ UNCHANGED <<varsFn, varsLB, varsSite, varsName, varsFile, varsSess,
                       varsMeta, varsSim, varsAn, varsFetch, varsMatch,
                       varsClean, varsDyn, varsMail, varsZip, varsCand>>
    \/ ProcessingRaises
         /\ UNCHANGED <<varsFn, varsLB, varsSite, varsName, varsFile, varsSess,
                       varsMeta, varsSim, varsAn, varsFetch, varsMatch,
                       varsClean, varsDyn, varsMail, varsZip, varsCand>>

SpecRank == InitRank /\ [][NextRank]_vars

InitSimilarity == SimInit /\ FnIdle /\ LBIdle /\ SiteIdle /\ NameIdle
    /\ FileIdle /\ SessIdle /\ MetaIdle /\ RankIdle /\ AnIdle /\ FetchIdle
    /\ MatchIdle /\ CleanIdle /\ DynIdle /\ MailIdle /\ ZipIdle /\ CandIdle

NextSimilarity ==
    \/ CallCalculateSimilarityScore
         /\ UNCHANGED <<varsFn, varsLB, varsSite, varsName, varsFile, varsSess,
                       varsMeta, varsRank, varsAn, varsFetch, varsMatch,
                       varsClean, varsDyn, varsMail, varsZip, varsCand>>
    \/ CallScoreCandidateResume
         /\ UNCHANGED <<varsFn, varsLB, varsSite, varsName, varsFile, varsSess,
                       varsMeta, varsRank, varsAn, varsFetch, varsMatch,
                       varsClean, varsDyn, varsMail, varsZip, varsCand>>
    \/ CallScoreResumes
         /\ UNCHANGED <<varsFn, varsLB, varsSite, varsName, varsFile, varsSess,
                       varsMeta, varsRank, varsAn, varsFetch, varsMatch,
                       varsClean, varsDyn, varsMail, varsZip, varsCand>>

SpecSimilarity == InitSimilarity /\ [][NextSimilarity]_vars

InitAnalyzer == AnInit /\ FnIdle /\ LBIdle /\ SiteIdle /\ NameIdle /\ FileIdle
    /\ SessIdle /\ MetaIdle /\ RankIdle /\ SimIdle /\ FetchIdle /\ MatchIdle
    /\ CleanIdle /\ DynIdle /\ MailIdle /\ ZipIdle /\ CandIdle

NextAnalyzer ==
    \/ PerformCompleteAnalysis
         /\ UNCHANGED <<varsFn, varsLB, varsSite, varsName, varsFile, varsSess,
                       varsMeta, varsRank, varsSim, varsFetch, varsMatch,
                       varsClean, varsDyn, varsMail, varsZip, varsCand>>

SpecAnalyzer == InitAnalyzer /\ [][NextAnalyzer]_vars

InitFetch == FetchInit /\ FnIdle /\ LBIdle /\ SiteIdle /\ NameIdle /\ FileIdle
    /\ SessIdle /\ MetaIdle /\ RankIdle /\ SimIdle /\ AnIdle /\ MatchIdle
    /\ CleanIdle /\ DynIdle /\ MailIdle /\ ZipIdle /\ CandIdle

NextFetch ==
    \/ RetryLoop
         /\ UNCHANGED <<varsFn, varsLB, varsSite, varsName, varsFile, varsSess,
                       varsMeta, varsRank, varsSim, varsAn, varsMatch,
                       varsClean, varsDyn, varsMail, varsZip, varsCand>>
    \/ PostGithubAnalyze
         /\ UNCHANGED <<varsFn, varsLB, varsSite, varsName, varsFile, varsSess,
                       varsMeta, varsRank, varsSim, varsAn, varsMatch,
                       varsClean, varsDyn, varsMail, varsZip, varsCand>>

SpecFetch == InitFetch /\ [][NextFetch]_vars

InitMatch == MatchInit /\ FnIdle /\ LBIdle /\ SiteIdle /\ NameIdle /\ FileIdle
    /\ SessIdle /\ MetaIdle /\ RankIdle /\ SimIdle /\ AnIdle /\ FetchIdle
    /\ CleanIdle /\ DynIdle /\ MailIdle /\ ZipIdle /\ CandIdle

NextMatch ==
    \/ CalculateOverallMatch
         /\ UNCHANGED <<varsFn, varsLB, varsSite, varsName, varsFile, varsSess,
                       varsMeta, varsRank, varsSim, varsAn, varsFetch,
                       varsClean, varsDyn, varsMail, varsZip, varsCand>>

SpecMatch == InitMatch /\ [][NextMatch]_vars

InitCleanup == CleanInit /\ FnIdle /\ LBIdle /\ SiteIdle /\ NameIdle
    /\ FileIdle /\ SessIdle /\ MetaIdle /\ RankIdle /\ SimIdle /\ AnIdle
    /\ FetchIdle /\ MatchIdle /\ DynIdle /\ MailIdle /\ ZipIdle /\ CandIdle

NextCleanup ==
    \/ NextDay
         /\ UNCHANGED <<varsFn, varsLB, varsSite, varsName, varsFile, varsSess,
                       varsMeta, varsRank, varsSim, varsAn, varsFetch,
                       varsMatch, varsDyn, varsMail, varsZip, varsCand>>
    \/ MakeDirectory
         /\ UNCHANGED <<varsFn, varsLB, varsSite, varsName, varsFile, varsSess,
                       varsMeta, varsRank, varsSim, varsAn, varsFetch,
                       varsMatch, varsDyn, varsMail, varsZip, varsCand>>
    \/ SaveMetadata
         /\ UNCHANGED <<varsFn, varsLB, varsSite, varsName, varsFile, varsSess,
                       varsMeta, varsRank, varsSim, varsAn, varsFetch,
                       varsMatch, varsDyn, varsMail, varsZip, varsCand>>
    \/ CleanupOldSessions
         /\ UNCHANGED <<varsFn, varsLB, varsSite, varsName, varsFile, varsSess,
                       varsMeta, varsRank, varsSim, varsAn, varsFetch,
                       varsMatch, varsDyn, varsMail, varsZip, varsCand>>

SpecCleanup == InitCleanup /\ [][NextCleanup]_vars

InitDynamic == DynInit /\ FnIdle /\ LBIdle /\ SiteIdle /\ NameIdle /\ FileIdle
    /\ SessIdle /\ MetaIdle /\ RankIdle /\ SimIdle /\ AnIdle /\ FetchIdle
    /\ MatchIdle /\ CleanIdle /\ MailIdle /\ ZipIdle /\ CandIdle

NextDynamic ==
    \/ GenerateLeaderboard
         /\ UNCHANGED <<varsFn, varsLB, varsSite, varsName, varsFile, varsSess,
                       varsMeta, varsRank, varsSim, varsAn, varsFetch,
                       varsMatch, varsClean, varsMail, varsZip, varsCand>>
    \/ GetCandidateRank
         /\ UNCHANGED <<varsFn, varsLB, varsSite, varsName, varsFile, varsSess,
                       varsMeta, varsRank, varsSim, varsAn, varsFetch,
                       varsMatch, varsClean, varsMail, varsZip, varsCand>>

SpecDynamic == InitDynamic /\ [][NextDynamic]_vars

InitMail == MailInit /\ FnIdle /\ LBIdle /\ SiteIdle /\ NameIdle /\ FileIdle
    /\ SessIdle /\ MetaIdle /\ RankIdle /\ SimIdle /\ AnIdle /\ FetchIdle
    /\ MatchIdle /\ CleanIdle /\ DynIdle /\ ZipIdle /\ CandIdle

NextMail ==
    \/ SendBulkEmails
         /\ UNCHANGED <<varsFn, varsLB, varsSite, varsName, varsFile, varsSess,
                       varsMeta, varsRank, varsSim, varsAn, varsFetch,
                       varsMatch, varsClean, varsDyn, varsZip, varsCand>>

SpecMail == InitMail /\ [][NextMail]_vars

InitZip == ZipInit /\ FnIdle /\ LBIdle /\ SiteIdle /\ NameIdle /\ FileIdle
    /\ SessIdle /\ MetaIdle /\ RankIdle /\ SimIdle /\ AnIdle /\ FetchIdle
    /\ MatchIdle /\ CleanIdle /\ DynIdle /\ MailIdle /\ CandIdle

NextZip ==
    \/ SafeExtractZip
         /\ UNCHANGED <<varsFn, varsLB, varsSite, varsName, varsFile, varsSess,
                       varsMeta, varsRank, varsSim, varsAn, varsFetch,
                       varsMatch, varsClean, varsDyn, varsMail, varsCand>>

SpecZip == InitZip /\ [][NextZip]_vars

InitCandidates == CandInit /\ FnIdle /\ LBIdle /\ SiteIdle /\ NameIdle
    /\ FileIdle /\ SessIdle /\ MetaIdle /\ RankIdle /\ SimIdle /\ AnIdle
    /\ FetchIdle /\ MatchIdle /\ CleanIdle /\ DynIdle /\ MailIdle /\ ZipIdle

NextCandidates ==
    \/ ScoreMultipleCandidates
         /\ UNCHANGED <<varsFn, varsLB, varsSite, varsName, varsFile, varsSess,
                       varsMeta, varsRank, varsSim, varsAn, varsFetch,
                       varsMatch, varsClean, varsDyn, varsMail, varsZip>>

SpecCandidates == InitCandidates /\ [][NextCandidates]_vars

====
